---- MODULE Spec2Model ----
(***************************************************************************)
(* A model of diceydice: the tokenizer of parser.py and the evaluator and  *)
(* value model of evaluate.py (DiceComputation, DiceGroup/DiceSum, the     *)
(* selectors and transformers, DiceRoller).                                *)
(*                                                                         *)
(* Values.  A Number (int or complex in the source) is a record            *)
(* [m, e]: m the real part (the magnitude), e the imaginary part (the      *)
(* effects).  An Optional[Number] is <<>> (None) or <<n>>.                 *)
(* A DiceComputation is a record with a field "kind":                      *)
(*   "die"    DieRoll        [id, sides, result]                           *)
(*   "combat" CombatDieRoll  [id, result, effect]                          *)
(*   "mod"    Modifier       [id, value]                                   *)
(*   "group"  DiceSum        [dice, transformer, is_closed]                *)
(* The field id stands for the identity of a leaf object: CombatDieRoll    *)
(* and Modifier define no __eq__, so Python compares them by identity.     *)
(* A Token is a record with a field "type".                                *)
(***************************************************************************)
EXTENDS Integers, Sequences, FiniteSets, TLC

VARIABLES
    consumed,   \* eval_summation: the tokens its loop has taken so far
    context,    \* eval_summation: its stack of parse nodes
    draws,      \* the calls of the randomness source so far: [sides, face]
    status,     \* "running", "done" (returned) or "error" (raised)
    result,     \* what evaluate returned or raised, <<>> before
    group,      \* a DiceSum under test
    answer,     \* what the operation applied to it gave
    text,       \* an expression, a sequence of characters
    tokens      \* what tokenize made of it

vars == <<consumed, context, draws, status, result, group, answer, text, tokens>>

(***************************************************************************)
(* Bounds of the model.                                                    *)
(***************************************************************************)
MaxTokens == 4

MaxDice == 3

MaxSides == 2

MaxKeep == 3

MaxThreshold == 2

(***************************************************************************)
(* Numbers.                                                                *)
(***************************************************************************)
Num(m, e) == [m |-> m, e |-> e]

Zero == Num(0, 0)

One == Num(1, 0)

\* an addition that lets the effects of the right term into the magnitude
NumAddMixing(a, b) == [m |-> a.m + b.m + b.e, e |-> a.e + b.e]

NumAdd(a, b) == Num(a.m + b.m, a.e + b.e)

None == <<>>

Some(n) == <<n>>

\* Python truthiness of an Optional[Number]: None and 0 are falsy.
Truthy(opt) == opt # None /\ opt[1] # Zero

RECURSIVE SumSeq(_)
SumSeq(s) == IF s = <<>> THEN Zero ELSE NumAdd(Head(s), SumSeq(Tail(s)))

Min2(a, b) == IF a < b THEN a ELSE b

(***************************************************************************)
(* Selectors and transformers (constructors).                              *)
(***************************************************************************)
Selector == [name |-> "all", count |-> 0, oper |-> "none"]

Highest(count) == [name |-> "high", count |-> count, oper |-> "none"]

Lowest(count) == [name |-> "low", count |-> count, oper |-> "none"]

Threshold(oper, threshold) == [name |-> "threshold", count |-> threshold, oper |-> oper]

KeepSelected(selector) ==
    [cls |-> "KeepSelected", selector |-> selector, force_min |-> None, force_max |-> None]

IdentityTransformer ==
    [cls |-> "IdentityTransformer", selector |-> Selector, force_min |-> None, force_max |-> None]

CountSelected(selector, force_min, force_max) ==
    [cls |-> "CountSelected", selector |-> selector, force_min |-> force_min, force_max |-> force_max]

\* Selector.__bool__, KeepSelected.__bool__, CountSelected.__bool__
TransformerBool(t) == t.selector.count # 0

\* Operator.__call__
OperatorCall(oper, left, right) ==
    CASE oper = "EQ" -> left = right
      [] oper = "GE" -> left >= right
      [] oper = "GT" -> left > right
      [] oper = "LE" -> left <= right
      [] oper = "LT" -> left < right

(***************************************************************************)
(* Computations (constructors).                                            *)
(***************************************************************************)
DieRoll(id, sides, res) == [kind |-> "die", id |-> id, sides |-> sides, result |-> res]

CombatDieRoll(id, res, effect) == [kind |-> "combat", id |-> id, result |-> res, effect |-> effect]

Modifier(id, value) == [kind |-> "mod", id |-> id, value |-> value]

DiceGroup(dice, transformer, is_closed) ==
    [kind |-> "group", dice |-> dice, transformer |-> transformer, is_closed |-> is_closed]

\* DiceSum.__init__: a falsy transformer (None, or one whose selector count
\* is 0) is replaced by the identity
DiceSumOf(dice, transformer, is_closed) ==
    DiceGroup(dice, IF TransformerBool(transformer) THEN transformer ELSE IdentityTransformer,
              is_closed)

\* DiceSum(dice)
DiceSum(dice) == DiceSumOf(dice, IdentityTransformer, FALSE)

IsGroup(dc) == dc.kind = "group"

\* DieRoll.is_crit
IsCrit(die) == die.result = 1 \/ die.result = die.sides

\* a from_d6 that takes the faces 3 and 4 at their face value
FromD6NoBlanks(id, face) ==
    IF face \in {1, 2, 3, 4} THEN [kind |-> "combat", id |-> id, result |-> face, effect |-> FALSE]
    ELSE [kind |-> "combat", id |-> id, result |-> 1, effect |-> TRUE]

\* CombatDieRoll.from_d6, applied to the DieRoll with the given id and face
FromD6(id, face) ==
    IF face = 1 THEN CombatDieRoll(id, 1, FALSE)
    ELSE IF face = 2 THEN CombatDieRoll(id, 2, FALSE)
    ELSE IF face \in {3, 4} THEN CombatDieRoll(id, 0, FALSE)
    ELSE CombatDieRoll(id, 1, TRUE)

(***************************************************************************)
(* Value, comparison and equality of computations.                         *)
(***************************************************************************)
RECURSIVE Value(_), CompEq(_, _), SeqEq(_, _), TransformerCall(_, _)

\* DiceComputation.__int__ / .result: the real part of value()
Magnitude(dc) == Value(dc).m

\* DiceComputation.effects: the imaginary part of value()
Effects(dc) == Value(dc).e

\* DiceComputation.__lt__ (and the other orderings): int(self) < int(other)
CompLt(a, b) == Magnitude(a) < Magnitude(b)

\* list.__eq__ of two lists of computations
SeqEq(s, t) ==
    /\ Len(s) = Len(t)
    /\ \A i \in 1..Len(s) : CompEq(s[i], t[i])

\* a == b: DieRoll.__eq__, DiceGroup.__eq__, identity for the classes without __eq__
CompEq(a, b) ==
    IF a.kind = "die" THEN b.kind = "die" /\ a.sides = b.sides /\ a.result = b.result
    ELSE IF a.kind = "group"
         THEN b.kind = "group" /\ SeqEq(a.dice, b.dice) /\ Value(a) = Value(b)
    ELSE a = b

\* die in kept_dice
Contains(list, die) == \E j \in 1..Len(list) : CompEq(list[j], die)

\* kept_dice.remove(die): the first element equal to die is removed
Remove(list, die) ==
    LET j == CHOOSE k \in 1..Len(list) :
                 CompEq(list[k], die) /\ \A l \in 1..(k - 1) : ~CompEq(list[l], die)
    IN  SubSeq(list, 1, j - 1) \o SubSeq(list, j + 1, Len(list))

(***************************************************************************)
(* heapq.nlargest / heapq.nsmallest, as Highest.__call__ and               *)
(* Lowest.__call__ use them: a heap of (elem, order) tuples.  A tuple      *)
(* comparison looks for the first position where the tuples differ by ==   *)
(* and compares there with <.                                              *)
(***************************************************************************)
TupleLt(a, b) ==
    IF CompEq(a.elem, b.elem) THEN a.order < b.order ELSE CompLt(a.elem, b.elem)

\* the comparison of the min-heap (nlargest) or, with low, of the max-heap (nsmallest)
HeapLt(low, a, b) == IF low THEN TupleLt(b, a) ELSE TupleLt(a, b)

RECURSIVE SiftDown(_, _, _, _, _)
SiftDown(low, heap, startpos, pos, newitem) ==
    IF pos > startpos /\ HeapLt(low, newitem, heap[((pos - 1) \div 2) + 1])
    THEN SiftDown(low, [heap EXCEPT ![pos + 1] = heap[((pos - 1) \div 2) + 1]],
                  startpos, (pos - 1) \div 2, newitem)
    ELSE [heap EXCEPT ![pos + 1] = newitem]

RECURSIVE SiftUpLoop(_, _, _, _)
SiftUpLoop(low, heap, pos, childpos) ==
    IF childpos < Len(heap)
    THEN LET rightpos == childpos + 1
             c == IF rightpos < Len(heap)
                     /\ ~HeapLt(low, heap[childpos + 1], heap[rightpos + 1])
                  THEN rightpos ELSE childpos
         IN  SiftUpLoop(low, [heap EXCEPT ![pos + 1] = heap[c + 1]], c, 2 * c + 1)
    ELSE <<heap, pos>>

SiftUp(low, heap, pos) ==
    LET r == SiftUpLoop(low, heap, pos, 2 * pos + 1)
    IN  SiftDown(low, r[1], pos, r[2], heap[pos + 1])

RECURSIVE HeapifyFrom(_, _, _)
HeapifyFrom(low, heap, i) ==
    IF i < 0 THEN heap ELSE HeapifyFrom(low, SiftUp(low, heap, i), i - 1)

Heapify(low, heap) == HeapifyFrom(low, heap, (Len(heap) \div 2) - 1)

HeapReplace(low, heap, item) == SiftUp(low, [heap EXCEPT ![1] = item], 0)

\* the loop over the elements after the first n: an element beyond the top
\* replaces it, and takes the next order number
RECURSIVE HeapScan(_, _, _, _, _)
HeapScan(low, heap, rolls, i, order) ==
    IF i > Len(rolls) THEN heap
    ELSE IF (IF low THEN CompLt(rolls[i], heap[1].elem) ELSE CompLt(heap[1].elem, rolls[i]))
         THEN HeapScan(low, HeapReplace(low, heap, [elem |-> rolls[i], order |-> order]),
                       rolls, i + 1, IF low THEN order + 1 ELSE order - 1)
    ELSE HeapScan(low, heap, rolls, i + 1, order)

\* max(rolls) / min(rolls): the first extreme element
RECURSIVE FirstExtreme(_, _, _, _)
FirstExtreme(low, rolls, i, best) ==
    IF i > Len(rolls) THEN best
    ELSE IF (IF low THEN CompLt(rolls[i], best) ELSE CompLt(best, rolls[i]))
         THEN FirstExtreme(low, rolls, i + 1, rolls[i])
    ELSE FirstExtreme(low, rolls, i + 1, best)

\* sorted(rolls) / sorted(rolls, reverse=True): stable
RECURSIVE InsertSorted(_, _, _)
InsertSorted(low, sorted, x) ==
    IF sorted = <<>> THEN <<x>>
    ELSE IF (IF low THEN CompLt(x, Head(sorted)) ELSE CompLt(Head(sorted), x))
         THEN <<x>> \o sorted
    ELSE <<Head(sorted)>> \o InsertSorted(low, Tail(sorted), x)

RECURSIVE StableSort(_, _)
StableSort(low, rolls) ==
    IF rolls = <<>> THEN <<>>
    ELSE InsertSorted(low, StableSort(low, SubSeq(rolls, 1, Len(rolls) - 1)),
                      rolls[Len(rolls)])

\* the first n elements, decorated with their order numbers
InitialHeap(low, n, rolls) ==
    [i \in 1..n |-> [elem |-> rolls[i], order |-> IF low THEN i - 1 ELSE -(i - 1)]]

\* heapq.nlargest(n, rolls) or, with low, heapq.nsmallest(n, rolls), up to the
\* order of the returned list in the heap case (its final sort only permutes it)
NExtreme(low, n, rolls) ==
    IF n = 1
    THEN IF rolls = <<>> THEN <<>> ELSE <<FirstExtreme(low, rolls, 2, rolls[1])>>
    ELSE IF n >= Len(rolls) THEN StableSort(low, rolls)
    ELSE LET heap == HeapScan(low, Heapify(low, InitialHeap(low, n, rolls)), rolls, n + 1,
                              IF low THEN n ELSE -n)
         IN  [i \in 1..n |-> heap[i].elem]

\* Selector.__call__, were Highest to take the smallest and Lowest the largest
SelectorCallSwapped(selector, rolls) ==
    CASE selector.name = "all" -> rolls
      [] selector.name = "high" -> NExtreme(TRUE, selector.count, rolls)
      [] selector.name = "low" -> NExtreme(FALSE, selector.count, rolls)
      [] selector.name = "threshold" ->
             SelectSeq(rolls, LAMBDA roll : OperatorCall(selector.oper, Magnitude(roll), selector.count))

\* Selector.__call__, Highest.__call__, Lowest.__call__, Threshold.__call__
SelectorCall(selector, rolls) ==
    CASE selector.name = "all" -> rolls
      [] selector.name = "high" -> NExtreme(FALSE, selector.count, rolls)
      [] selector.name = "low" -> NExtreme(TRUE, selector.count, rolls)
      [] selector.name = "threshold" ->
             SelectSeq(rolls, LAMBDA roll : OperatorCall(selector.oper, Magnitude(roll), selector.count))

\* CountSelected.override
Override(t, die) ==
    IF die.kind = "die" /\ IsCrit(die)
    THEN IF die.result = 1 THEN t.force_min ELSE t.force_max
    ELSE None

\* what KeepSelected.__call__ / CountSelected.__call__ yield for a kept die
YieldKept(t, die) ==
    IF t.cls = "CountSelected"
    THEN IF Truthy(Override(t, die)) THEN Override(t, die)[1] ELSE One
    ELSE Value(die)

\* ... and for a die that is not kept
YieldDropped(t, die) ==
    IF t.cls = "CountSelected" /\ Truthy(Override(t, die)) THEN Override(t, die)[1] ELSE Zero

\* the loop of KeepSelected.__call__ / CountSelected.__call__ over the dice
RECURSIVE TransformLoop(_, _, _, _)
TransformLoop(t, dice, i, kept_dice) ==
    IF i > Len(dice) THEN <<>>
    ELSE IF Contains(kept_dice, dice[i])
         THEN <<YieldKept(t, dice[i])>> \o TransformLoop(t, dice, i + 1, Remove(kept_dice, dice[i]))
    ELSE <<YieldDropped(t, dice[i])>> \o TransformLoop(t, dice, i + 1, kept_dice)

\* transformer(dice): the contribution of each die, in order
TransformerCall(t, dice) == TransformLoop(t, dice, 1, SelectorCall(t.selector, dice))

\* DieRoll.value, CombatDieRoll.value, Modifier.value, DiceGroup.value
Value(dc) ==
    CASE dc.kind = "die" -> Num(dc.result, 0)
      [] dc.kind = "combat" -> Num(dc.result, IF dc.effect THEN 1 ELSE 0)
      [] dc.kind = "mod" -> Num(dc.value, 0)
      [] dc.kind = "group" -> SumSeq(TransformerCall(dc.transformer, dc.dice))

\* DiceGroup.kept_indexes, were it to count the children from 1
KeptIndexesFromOne(g) ==
    LET values == TransformerCall(g.transformer, g.dice)
        RECURSIVE Scan(_)
        Scan(i) == IF i > Len(values) THEN <<>>
                   ELSE (IF values[i].m # 0 THEN <<i>> ELSE <<>>) \o Scan(i + 1)
    IN  Scan(1)

\* DiceGroup.kept_indexes (indexes from 0, as in the source)
KeptIndexes(g) ==
    LET values == TransformerCall(g.transformer, g.dice)
        RECURSIVE Scan(_)
        Scan(i) == IF i > Len(values) THEN <<>>
                   ELSE (IF values[i].m # 0 THEN <<i - 1>> ELSE <<>>) \o Scan(i + 1)
    IN  Scan(1)

\* DiceGroup.kept: compress(dice, transformer(dice)) keeps a die whose number is truthy
Kept(g) ==
    LET values == TransformerCall(g.transformer, g.dice)
        RECURSIVE Scan(_)
        Scan(i) == IF i > Len(values) THEN <<>>
                   ELSE (IF values[i] # Zero THEN <<g.dice[i]>> ELSE <<>>) \o Scan(i + 1)
    IN  Scan(1)

\* DiceGroup.__bool__ for a group; a leaf defines neither __bool__ nor __len__
CompBool(dc) == IF IsGroup(dc) THEN Len(dc.dice) # 0 ELSE TRUE

\* DiceSum.close, were it to hand back the group as open as it was
CloseKeepingFlag(g) == DiceSumOf(g.dice, g.transformer, g.is_closed)

\* DiceSum.close
Close(g) == DiceSumOf(g.dice, g.transformer, TRUE)

\* DiceSum.keep
Keep(g, selector) == DiceSumOf(g.dice, KeepSelected(selector), FALSE)

\* DiceSum.count
Count(g, selector, force_min, force_max) ==
    DiceSumOf(g.dice, CountSelected(selector, force_min, force_max), FALSE)

\* DiceSum.crit_le, were its two overrides the other way round
CritLeSwapped(g, threshold) ==
    Count(g, Threshold("LE", threshold), Some(Num(0, 1)), Some(Num(2, 0)))

\* DiceSum.crit_le
CritLe(g, threshold) == Count(g, Threshold("LE", threshold), Some(Num(2, 0)), Some(Num(0, 1)))

\* DiceSum.crit_ge
CritGe(g, threshold) == Count(g, Threshold("GE", threshold), Some(Num(0, 1)), Some(Num(2, 0)))

\* DiceSum.eq, le, lt, ge, gt, were they to pass the overrides of crit_le
PlainWithCrits(g, oper, threshold) ==
    Count(g, Threshold(oper, threshold), Some(Num(2, 0)), Some(Num(0, 1)))

\* DiceSum.eq, le, lt, ge, gt
Plain(g, oper, threshold) == Count(g, Threshold(oper, threshold), None, None)

\* a raised exception, as a value
Error(exc, msg) == [error |-> exc, msg |-> msg]

IsError(x) == "error" \in DOMAIN x

\* DiceGroup.add_computation, were it to leave a closed right operand out
AddComputationLosingClosed(left, right) ==
    LET is_closed_group(dc) == IsGroup(dc) /\ dc.is_closed
        dice_list(dc) == IF IsGroup(dc) THEN dc.dice ELSE <<dc>>
        actual == IF CompBool(left) THEN left ELSE right
        has_transformer ==
            \/ IsGroup(left) /\ TransformerBool(left.transformer)
            \/ IsGroup(right) /\ TransformerBool(right.transformer)
    IN  IF ~CompBool(left) \/ ~CompBool(right)
        THEN IF IsGroup(actual) THEN actual ELSE DiceSum(<<actual>>)
        ELSE IF is_closed_group(left) /\ is_closed_group(right) THEN DiceSum(<<left, right>>)
        ELSE IF is_closed_group(left) THEN DiceSum(<<left>> \o dice_list(right))
        ELSE IF is_closed_group(right) THEN DiceSum(dice_list(left))
        ELSE IF has_transformer THEN DiceSum(<<left, right>>)
        ELSE IF IsGroup(left) /\ IsGroup(right) THEN DiceSum(left.dice \o right.dice)
        ELSE IF IsGroup(left) THEN DiceSum(left.dice \o <<right>>)
        ELSE IF IsGroup(right) THEN DiceSum(<<left>> \o right.dice)
        ELSE Error("TypeError", "Unable to add")

\* DiceGroup.add_computation, were it to take a closed group for an open one
AddComputationMergingClosed(left, right) ==
    LET actual == IF CompBool(left) THEN left ELSE right
        has_transformer ==
            \/ IsGroup(left) /\ TransformerBool(left.transformer)
            \/ IsGroup(right) /\ TransformerBool(right.transformer)
    IN  IF ~CompBool(left) \/ ~CompBool(right)
        THEN IF IsGroup(actual) THEN actual ELSE DiceSum(<<actual>>)
        ELSE IF has_transformer THEN DiceSum(<<left, right>>)
        ELSE IF IsGroup(left) /\ IsGroup(right) THEN DiceSum(left.dice \o right.dice)
        ELSE IF IsGroup(left) THEN DiceSum(left.dice \o <<right>>)
        ELSE IF IsGroup(right) THEN DiceSum(<<left>> \o right.dice)
        ELSE Error("TypeError", "Unable to add")

\* DiceGroup.add_computation, were it to nest two open groups instead of
\* merging them
AddComputationNesting(left, right) ==
    LET is_closed_group(dc) == IsGroup(dc) /\ dc.is_closed
        dice_list(dc) == IF IsGroup(dc) THEN dc.dice ELSE <<dc>>
        actual == IF CompBool(left) THEN left ELSE right
    IN  IF ~CompBool(left) \/ ~CompBool(right)
        THEN IF IsGroup(actual) THEN actual ELSE DiceSum(<<actual>>)
        ELSE IF is_closed_group(left) /\ is_closed_group(right) THEN DiceSum(<<left, right>>)
        ELSE IF is_closed_group(left) THEN DiceSum(<<left>> \o dice_list(right))
        ELSE IF is_closed_group(right) THEN DiceSum(dice_list(left) \o <<right>>)
        ELSE IF IsGroup(left) /\ IsGroup(right) THEN DiceSum(<<left, right>>)
        ELSE IF IsGroup(left) THEN DiceSum(left.dice \o <<right>>)
        ELSE IF IsGroup(right) THEN DiceSum(<<left>> \o right.dice)
        ELSE Error("TypeError", "Unable to add")

\* DiceGroup.add_computation
AddComputation(left, right) ==
    LET is_closed_group(dc) == IsGroup(dc) /\ dc.is_closed
        dice_list(dc) == IF IsGroup(dc) THEN dc.dice ELSE <<dc>>
        actual == IF CompBool(left) THEN left ELSE right
        has_transformer ==
            \/ IsGroup(left) /\ TransformerBool(left.transformer)
            \/ IsGroup(right) /\ TransformerBool(right.transformer)
    IN  IF ~CompBool(left) \/ ~CompBool(right)
        THEN IF IsGroup(actual) THEN actual ELSE DiceSum(<<actual>>)
        ELSE IF is_closed_group(left) /\ is_closed_group(right) THEN DiceSum(<<left, right>>)
        ELSE IF is_closed_group(left) THEN DiceSum(<<left>> \o dice_list(right))
        ELSE IF is_closed_group(right) THEN DiceSum(dice_list(left) \o <<right>>)
        ELSE IF has_transformer THEN DiceSum(<<left, right>>)
        ELSE IF IsGroup(left) /\ IsGroup(right) THEN DiceSum(left.dice \o right.dice)
        ELSE IF IsGroup(left) THEN DiceSum(left.dice \o <<right>>)
        ELSE IF IsGroup(right) THEN DiceSum(<<left>> \o right.dice)
        ELSE Error("TypeError", "Unable to add")

(***************************************************************************)
(* Tokens (parser.py).                                                     *)
(***************************************************************************)
GROUP_START == [type |-> "GROUP_START"]

GROUP_END == [type |-> "GROUP_END"]

ADD == [type |-> "ADD"]

Dice(count, sides) == [type |-> "Dice", count |-> count, sides |-> sides]

Combat(count) == [type |-> "Combat", count |-> count]

Constant(value) == [type |-> "Constant", value |-> value]

KeepHighest(count) == [type |-> "KeepHighest", count |-> count]

KeepLowest(count) == [type |-> "KeepLowest", count |-> count]

\* EQ, GE, GT, LE, LT, CritLE, CritGE
ThresholdOperator(type, threshold) == [type |-> type, threshold |-> threshold]

KeepTypes == {"KeepHighest", "KeepLowest"}

PlainThresholdTypes == {"EQ", "GE", "GT", "LE", "LT"}

CritThresholdTypes == {"CritLE", "CritGE"}

PostfixTypes == KeepTypes \cup PlainThresholdTypes \cup CritThresholdTypes

IsToken(node) == "type" \in DOMAIN node

IsComputation(node) == "kind" \in DOMAIN node

\* isinstance(node, DiceSum)
IsDiceSum(node) == IsComputation(node) /\ node.kind = "group"

(***************************************************************************)
(* tokenize (parser.py).  An expression is a sequence of one-character     *)
(* strings; tokenize lowers it first, so the characters here are lower     *)
(* case.  The pattern is the alternation of the token classes' patterns,   *)
(* last defined first: Combat, PostfixOperator, Dice, Constant and then    *)
(* Token, any single character that is not white space.                    *)
(***************************************************************************)
DigitValue ==
    "0" :> 0 @@ "1" :> 1 @@ "2" :> 2 @@ "3" :> 3 @@ "4" :> 4 @@
    "5" :> 5 @@ "6" :> 6 @@ "7" :> 7 @@ "8" :> 8 @@ "9" :> 9

IsDigit(c) == c \in DOMAIN DigitValue

Letters ==
    {"a", "b", "c", "d", "e", "f", "g", "h", "i", "j", "k", "l", "m",
     "n", "o", "p", "q", "r", "s", "t", "u", "v", "w", "x", "y", "z"}

\* \w
IsWord(c) == IsDigit(c) \/ c \in Letters \/ c = "_"

\* \s
IsSpace(c) == c = " "

\* the character at position i, "" past the end
CharAt(expression, i) == IF i \in 1..Len(expression) THEN expression[i] ELSE ""

\* the position after the run of digits that starts at position i
RECURSIVE DigitsEnd(_, _)
DigitsEnd(expression, i) ==
    IF IsDigit(CharAt(expression, i)) THEN DigitsEnd(expression, i + 1) ELSE i

\* the position after the run of white space that starts at position i
RECURSIVE SpacesEnd(_, _)
SpacesEnd(expression, i) ==
    IF IsSpace(CharAt(expression, i)) THEN SpacesEnd(expression, i + 1) ELSE i

\* int() of the digits from position i up to position j, j excluded
RECURSIVE IntOf(_, _, _)
IntOf(expression, i, j) ==
    IF j <= i THEN 0
    ELSE 10 * IntOf(expression, i, j - 1) + DigitValue[expression[j - 1]]

\* int(count or '1')
IntOr1(expression, i, j) == IF j = i THEN 1 ELSE IntOf(expression, i, j)

NoMatch == [end |-> 0, token |-> <<>>]

Match(end, token) == [end |-> end, token |-> <<token>>]

\* Combat: digits, none allowed, and then c
MatchCombat(expression, i) ==
    LET e == DigitsEnd(expression, i)
    IN  IF CharAt(expression, e) = "c"
        THEN Match(e + 1, Combat(IntOr1(expression, i, e)))
        ELSE NoMatch

\* PostfixOperator: one of h, l, kh, kl, <-, ->, <, <=, >, >= and then
\* digits, none allowed
MatchPostfix(expression, i) ==
    LET c1 == CharAt(expression, i)
        c2 == CharAt(expression, i + 1)
        keep_type ==
            IF c1 = "k" /\ c2 \in {"h", "l"} THEN <<c1, c2>>
            ELSE IF c1 \in {"h", "l"} THEN <<c1>>
            ELSE IF c1 = "<" /\ c2 = "-" THEN <<c1, c2>>
            ELSE IF c1 = "-" /\ c2 = ">" THEN <<c1, c2>>
            ELSE IF c1 \in {"<", ">"} THEN (IF c2 = "=" THEN <<c1, c2>> ELSE <<c1>>)
            ELSE <<>>
        d == i + Len(keep_type)
        e == DigitsEnd(expression, d)
        count == IntOr1(expression, d, e)
    IN  IF keep_type = <<>> THEN NoMatch
        ELSE Match(e,
                 CASE keep_type \in {<<"h">>, <<"k", "h">>} -> KeepHighest(count)
                   [] keep_type \in {<<"l">>, <<"k", "l">>} -> KeepLowest(count)
                   [] keep_type = <<">", "=">> -> ThresholdOperator("GE", count)
                   [] keep_type = <<">">> -> ThresholdOperator("GT", count)
                   [] keep_type = <<"<", "=">> -> ThresholdOperator("LE", count)
                   [] keep_type = <<"<">> -> ThresholdOperator("LT", count)
                   [] keep_type = <<"<", "-">> -> ThresholdOperator("CritLE", count)
                   [] keep_type = <<"-", ">">> -> ThresholdOperator("CritGE", count))

\* Dice: digits, d, digits
MatchDice(expression, i) ==
    LET d == DigitsEnd(expression, i)
        e == DigitsEnd(expression, d + 1)
    IN  IF d > i /\ CharAt(expression, d) = "d" /\ e > d + 1
        THEN Match(e, Dice(IntOf(expression, i, d), IntOf(expression, d + 1, e)))
        ELSE NoMatch

\* Constant: an optional minus sign, white space, none allowed, digits, and
\* then a word boundary
MatchConstant(expression, i) ==
    LET minus == CharAt(expression, i) = "-"
        w == SpacesEnd(expression, IF minus THEN i + 1 ELSE i)
        e == DigitsEnd(expression, w)
    IN  IF e > w /\ ~IsWord(CharAt(expression, e))
        THEN Match(e, Constant((IF minus THEN -1 ELSE 1) * IntOf(expression, w, e)))
        ELSE NoMatch

\* Token.from_str of a single character that none of the patterns above took
FromChar(c) ==
    CASE c = "+" -> <<ADD>>
      [] c = "(" -> <<GROUP_START>>
      [] c = ")" -> <<GROUP_END>>
      [] IsDigit(c) -> <<Constant(DigitValue[c])>>
      [] OTHER -> <<>>

\* the first alternative of the pattern that matches at position i
MatchAt(expression, i) ==
    IF MatchCombat(expression, i) # NoMatch THEN MatchCombat(expression, i)
    ELSE IF MatchPostfix(expression, i) # NoMatch THEN MatchPostfix(expression, i)
    ELSE IF MatchDice(expression, i) # NoMatch THEN MatchDice(expression, i)
    ELSE IF MatchConstant(expression, i) # NoMatch THEN MatchConstant(expression, i)
    ELSE IF ~IsSpace(CharAt(expression, i))
         THEN [end |-> i + 1, token |-> FromChar(CharAt(expression, i))]
    ELSE NoMatch

\* finditer over the expression and Token.from_str of every match: the
\* tokens, or the TokenizeError raised for the first match that is no token
RECURSIVE TokenizeFrom(_, _, _)
TokenizeFrom(expression, i, acc) ==
    IF i > Len(expression) THEN [tokens |-> acc, error |-> <<>>]
    ELSE IF MatchAt(expression, i) = NoMatch THEN TokenizeFrom(expression, i + 1, acc)
    ELSE IF MatchAt(expression, i).token = <<>>
         THEN [tokens |-> <<>>,
               error |-> <<Error("TokenizeError", <<"Unknown token", CharAt(expression, i)>>)>>]
    ELSE TokenizeFrom(expression, MatchAt(expression, i).end,
                      acc \o MatchAt(expression, i).token)

\* str.lower on the letters of the alphabet
LowerOf ==
    "A" :> "a" @@ "B" :> "b" @@ "C" :> "c" @@ "D" :> "d" @@ "E" :> "e" @@
    "F" :> "f" @@ "G" :> "g" @@ "H" :> "h" @@ "I" :> "i" @@ "J" :> "j" @@
    "K" :> "k" @@ "L" :> "l" @@ "M" :> "m" @@ "N" :> "n" @@ "O" :> "o" @@
    "P" :> "p" @@ "Q" :> "q" @@ "R" :> "r" @@ "S" :> "s" @@ "T" :> "t" @@
    "U" :> "u" @@ "V" :> "v" @@ "W" :> "w" @@ "X" :> "x" @@ "Y" :> "y" @@
    "Z" :> "z"

\* expression.lower()
Lower(expression) ==
    [i \in 1..Len(expression) |->
        IF expression[i] \in DOMAIN LowerOf THEN LowerOf[expression[i]] ELSE expression[i]]

\* tokenize without the lower(): upper-case letters are unknown tokens
TokenizeCaseSensitive(expression) == TokenizeFrom(expression, 1, <<>>)

\* tokenize: a record of the tokens and of the exception raised, if any
Tokenize(expression) == TokenizeFrom(Lower(expression), 1, <<>>)

(***************************************************************************)
(* DiceRoller.  The randomness source is a record: mode "high" returns     *)
(* sides, mode "low" returns 1, mode "seq" returns faces[n] at its n-th    *)
(* call.  A roll takes the number of its draw as the identity of the       *)
(* DieRoll it makes.                                                       *)
(***************************************************************************)
HighRoller == [mode |-> "high", faces |-> <<>>]

LowRoller == [mode |-> "low", faces |-> <<>>]

SeqRoller(faces) == [mode |-> "seq", faces |-> faces]

Rng(src, n, sides) ==
    CASE src.mode = "high" -> sides
      [] src.mode = "low" -> 1
      [] src.mode = "seq" -> src.faces[n]

\* DiceRoller.roll, at the n-th draw
Roll(src, n, sides) == DieRoll(n, sides, Rng(src, n, sides))

\* the calls of the randomness source that a Dice or Combat token makes
DrawLog(src, ndrawn, count, sides) ==
    [i \in 1..count |-> [sides |-> sides, face |-> Rng(src, ndrawn + i, sides)]]

\* DiceRoller.evaluate_dice, were it to fill the group from its last die backwards
EvaluateDiceBackwards(src, ndrawn, dice) ==
    DiceSum([i \in 1..dice.count |-> Roll(src, ndrawn + dice.count + 1 - i, dice.sides)])

\* DiceRoller.evaluate_dice, after ndrawn draws
EvaluateDice(src, ndrawn, dice) ==
    DiceSum([i \in 1..dice.count |-> Roll(src, ndrawn + i, dice.sides)])

\* DiceRoller.evaluate_combat, after ndrawn draws
EvaluateCombat(src, ndrawn, combat) ==
    DiceSum([i \in 1..combat.count |-> FromD6(ndrawn + i, Rng(src, ndrawn + i, 6))])

\* DiceRoller.apply_postfix, were it to take only an open group that carries
\* no transformer yet
ApplyPostfixOpenOnly(node, postfix) ==
    IF ~IsDiceSum(node) \/ node.is_closed \/ TransformerBool(node.transformer)
    THEN Error("DiceSyntaxError", "operator must follow dice roll or group")
    ELSE IF postfix.type \in KeepTypes
         THEN IF postfix.count < 1
              THEN Error("DiceSyntaxError", "Can't keep less than one die")
              ELSE IF postfix.type = "KeepHighest" THEN Keep(node, Highest(postfix.count))
              ELSE Keep(node, Lowest(postfix.count))
    ELSE IF postfix.type = "CritLE" THEN CritLe(node, postfix.threshold)
    ELSE IF postfix.type = "CritGE" THEN CritGe(node, postfix.threshold)
    ELSE IF postfix.type \in PlainThresholdTypes THEN Plain(node, postfix.type, postfix.threshold)
    ELSE Error("ValueError", "Unhandled postfix operator")

\* DiceRoller.apply_postfix, were it to wrap a bare computation in a group
ApplyPostfixAnyOperand(node, postfix) ==
    LET sum == IF IsDiceSum(node) THEN node ELSE DiceSum(<<node>>)
    IN  IF IsToken(node)
        THEN Error("DiceSyntaxError", "operator must follow dice roll or group")
        ELSE IF postfix.type \in KeepTypes
             THEN IF postfix.count < 1
                  THEN Error("DiceSyntaxError", "Can't keep less than one die")
                  ELSE IF postfix.type = "KeepHighest" THEN Keep(sum, Highest(postfix.count))
                  ELSE Keep(sum, Lowest(postfix.count))
        ELSE IF postfix.type = "CritLE" THEN CritLe(sum, postfix.threshold)
        ELSE IF postfix.type = "CritGE" THEN CritGe(sum, postfix.threshold)
        ELSE IF postfix.type \in PlainThresholdTypes THEN Plain(sum, postfix.type, postfix.threshold)
        ELSE Error("ValueError", "Unhandled postfix operator")

\* DiceRoller.apply_postfix
ApplyPostfix(node, postfix) ==
    IF ~IsDiceSum(node)
    THEN Error("DiceSyntaxError", "operator must follow dice roll or group")
    ELSE IF postfix.type \in KeepTypes
         THEN IF postfix.count < 1
              THEN Error("DiceSyntaxError", "Can't keep less than one die")
              ELSE IF postfix.type = "KeepHighest" THEN Keep(node, Highest(postfix.count))
              ELSE Keep(node, Lowest(postfix.count))
    ELSE IF postfix.type = "CritLE" THEN CritLe(node, postfix.threshold)
    ELSE IF postfix.type = "CritGE" THEN CritGe(node, postfix.threshold)
    ELSE IF postfix.type \in PlainThresholdTypes THEN Plain(node, postfix.type, postfix.threshold)
    ELSE Error("ValueError", "Unhandled postfix operator")

\* DiceRoller.evaluate_group: a record of the result (a closed group or the
\* exception raised) and of the draws made (for the Dice tokens among the nodes)
RECURSIVE EvaluateGroupLoop(_, _, _, _, _)
EvaluateGroupLoop(src, ndrawn, nodes, i, acc) ==
    IF i > Len(nodes) THEN [result |-> Close(acc.result), log |-> acc.log]
    ELSE IF IsToken(nodes[i]) /\ nodes[i].type = "Dice"
         THEN EvaluateGroupLoop(src, ndrawn, nodes, i + 1,
                  [result |-> AddComputation(acc.result,
                                  EvaluateDice(src, ndrawn + Len(acc.log), nodes[i])),
                   log |-> acc.log \o DrawLog(src, ndrawn + Len(acc.log),
                                              nodes[i].count, nodes[i].sides)])
    ELSE IF IsComputation(nodes[i])
         THEN EvaluateGroupLoop(src, ndrawn, nodes, i + 1,
                  [result |-> AddComputation(acc.result, nodes[i]), log |-> acc.log])
    ELSE IF nodes[i] = ADD THEN EvaluateGroupLoop(src, ndrawn, nodes, i + 1, acc)
    ELSE [result |-> Error("DiceSyntaxError", "Illegal token in group"), log |-> acc.log]

EvaluateGroup(src, ndrawn, nodes) ==
    EvaluateGroupLoop(src, ndrawn, nodes, 1, [result |-> DiceSum(<<>>), log |-> <<>>])

\* the position in the context of the last GROUP_START, 0 when there is none
LastGroupStart(ctx) ==
    LET starts == {j \in 1..Len(ctx) : ctx[j] = GROUP_START}
    IN  IF starts = {} THEN 0 ELSE CHOOSE j \in starts : \A k \in starts : k <= j

\* One turn of the loop of DiceRoller.eval_summation: the state st (the
\* context, the log of the draws, the exception raised if any) after the
\* token at position pos.
EvalToken(src, st, token, pos) ==
    LET ctx == st.context
        n == Len(ctx)
        ndrawn == Len(st.log)
        push(node) == [st EXCEPT !.context = Append(ctx, node)]
        raise(e) == [st EXCEPT !.error = <<e>>]
    IN  IF token = GROUP_START THEN push(token)
        ELSE IF token = GROUP_END
             THEN IF LastGroupStart(ctx) = 0
                  THEN raise(Error("IndexError", "pop from empty list"))
                  ELSE [st EXCEPT !.context =
                            Append(SubSeq(ctx, 1, LastGroupStart(ctx) - 1),
                                   EvaluateGroup(src, ndrawn,
                                       SubSeq(ctx, LastGroupStart(ctx) + 1, n)).result)]
        ELSE IF token.type = "Dice"
             THEN [st EXCEPT !.context = Append(ctx, EvaluateDice(src, ndrawn, token)),
                             !.log = st.log \o DrawLog(src, ndrawn, token.count, token.sides)]
        ELSE IF token.type = "Combat"
             THEN [st EXCEPT !.context = Append(ctx, EvaluateCombat(src, ndrawn, token)),
                             !.log = st.log \o DrawLog(src, ndrawn, token.count, 6)]
        ELSE IF token.type \in PostfixTypes
             THEN IF n = 0 THEN raise(Error("IndexError", "pop from empty list"))
                  ELSE IF IsError(ApplyPostfix(ctx[n], token))
                       THEN raise(ApplyPostfix(ctx[n], token))
                  ELSE [st EXCEPT !.context = [ctx EXCEPT ![n] = ApplyPostfix(ctx[n], token)]]
        ELSE IF token.type = "Constant" THEN push(Modifier(-pos, token.value))
        ELSE st

\* the state of eval_summation before its loop
EvalStart == [context |-> <<>>, log |-> <<>>, error |-> <<>>]

\* the return of eval_summation: evaluate_group(context)
EvalReturn(src, st) == EvaluateGroup(src, Len(st.log), st.context).result

\* DiceRoller.evaluate / eval_summation on a token sequence: the result (a
\* closed group or the exception raised) and the log of the draws
RECURSIVE EvalLoop(_, _, _, _)
EvalLoop(src, toks, i, st) ==
    IF st.error # <<>> THEN [result |-> st.error[1], log |-> st.log]
    ELSE IF i > Len(toks) THEN [result |-> EvalReturn(src, st), log |-> st.log]
    ELSE EvalLoop(src, toks, i + 1, EvalToken(src, st, toks[i], i))

EvalSummation(src, toks) == EvalLoop(src, toks, 1, EvalStart)

Evaluate(src, toks) == EvalSummation(src, toks)

(***************************************************************************)
(* Spec: DiceRoller.evaluate as a state machine.  The tokens arrive one    *)
(* at a time, as the for loop of eval_summation takes them from its        *)
(* iterable; every turn of the loop is one action, and the randomness      *)
(* source answers each draw with any face of the die.                      *)
(***************************************************************************)
DiceTokens == {Dice(0, 2), Dice(2, 2)}

CombatTokens == {Combat(1)}

ConstantTokens == {Constant(-1)}

PostfixTokens ==
    {KeepHighest(0), KeepHighest(1), KeepLowest(2),
     ThresholdOperator("LE", 1), ThresholdOperator("GT", 0),
     ThresholdOperator("CritLE", 1)}

Faces(log) == [i \in 1..Len(log) |-> log[i].face]

NoAnswer == [op |-> "none"]

NoSpecVars == group = <<>> /\ answer = NoAnswer /\ text = <<>> /\ tokens = <<>>

Init ==
    /\ consumed = <<>>
    /\ context = <<>>
    /\ draws = <<>>
    /\ status = "running"
    /\ result = <<>>
    /\ NoSpecVars

\* the state of eval_summation after one more turn of its loop, for the given
\* token, the source answering its draws with the given faces
After(token, faces) ==
    EvalToken(SeqRoller(Faces(draws) \o faces),
              [context |-> context, log |-> draws, error |-> <<>>],
              token, Len(consumed) + 1)

StatusAfter(st) == IF st.error = <<>> THEN "running" ELSE "error"

ResultAfter(st) == IF st.error = <<>> THEN result ELSE st.error[1]

\* the loop is running and the iterable has a next token
Taking == status = "running" /\ Len(consumed) < MaxTokens

\* token is Token.GROUP_START
TokenGroupStart ==
    /\ Taking
    /\ consumed' = Append(consumed, GROUP_START)
    /\ context' = After(GROUP_START, <<>>).context
    /\ draws' = After(GROUP_START, <<>>).log
    /\ status' = StatusAfter(After(GROUP_START, <<>>))
    /\ result' = ResultAfter(After(GROUP_START, <<>>))
    /\ UNCHANGED <<group, answer, text, tokens>>

\* token is Token.GROUP_END
TokenGroupEnd ==
    /\ Taking
    /\ consumed' = Append(consumed, GROUP_END)
    /\ context' = After(GROUP_END, <<>>).context
    /\ draws' = After(GROUP_END, <<>>).log
    /\ status' = StatusAfter(After(GROUP_END, <<>>))
    /\ result' = ResultAfter(After(GROUP_END, <<>>))
    /\ UNCHANGED <<group, answer, text, tokens>>

\* isinstance(token, Dice)
TokenDice ==
    \E t \in DiceTokens : \E faces \in [1..t.count -> 1..t.sides] :
        /\ Taking
        /\ consumed' = Append(consumed, t)
        /\ context' = After(t, faces).context
        /\ draws' = After(t, faces).log
        /\ status' = StatusAfter(After(t, faces))
        /\ result' = ResultAfter(After(t, faces))
        /\ UNCHANGED <<group, answer, text, tokens>>

\* isinstance(token, Combat)
TokenCombat ==
    \E t \in CombatTokens : \E faces \in [1..t.count -> 1..6] :
        /\ Taking
        /\ consumed' = Append(consumed, t)
        /\ context' = After(t, faces).context
        /\ draws' = After(t, faces).log
        /\ status' = StatusAfter(After(t, faces))
        /\ result' = ResultAfter(After(t, faces))
        /\ UNCHANGED <<group, answer, text, tokens>>

\* isinstance(token, PostfixOperator)
TokenPostfix ==
    \E t \in PostfixTokens :
        /\ Taking
        /\ consumed' = Append(consumed, t)
        /\ context' = After(t, <<>>).context
        /\ draws' = After(t, <<>>).log
        /\ status' = StatusAfter(After(t, <<>>))
        /\ result' = ResultAfter(After(t, <<>>))
        /\ UNCHANGED <<group, answer, text, tokens>>

\* isinstance(token, Constant)
TokenConstant ==
    \E t \in ConstantTokens :
        /\ Taking
        /\ consumed' = Append(consumed, t)
        /\ context' = After(t, <<>>).context
        /\ draws' = After(t, <<>>).log
        /\ status' = StatusAfter(After(t, <<>>))
        /\ result' = ResultAfter(After(t, <<>>))
        /\ UNCHANGED <<group, answer, text, tokens>>

\* Token.ADD: no branch of the loop takes it
TokenAdd ==
    /\ Taking
    /\ consumed' = Append(consumed, ADD)
    /\ context' = After(ADD, <<>>).context
    /\ draws' = After(ADD, <<>>).log
    /\ status' = StatusAfter(After(ADD, <<>>))
    /\ result' = ResultAfter(After(ADD, <<>>))
    /\ UNCHANGED <<group, answer, text, tokens>>

\* the end of the iterable, were it to leave the run going
EndOfTokensStillRunning ==
    /\ status = "running"
    /\ status' = "running"
    /\ result' = <<>>
    /\ UNCHANGED <<consumed, context, draws, group, answer, text, tokens>>

\* the iterable is exhausted: eval_summation returns evaluate_group(context)
EndOfTokens ==
    LET r == EvalReturn(SeqRoller(Faces(draws)),
                        [context |-> context, log |-> draws, error |-> <<>>])
    IN  /\ status = "running"
        /\ status' = IF IsError(r) THEN "error" ELSE "done"
        /\ result' = r
        /\ UNCHANGED <<consumed, context, draws, group, answer, text, tokens>>

Next ==
    \/ TokenGroupStart
    \/ TokenGroupEnd
    \/ TokenDice
    \/ TokenCombat
    \/ TokenPostfix
    \/ TokenConstant
    \/ TokenAdd
    \/ EndOfTokens

Spec == Init /\ [][Next]_vars

(***************************************************************************)
(* SpecGroup: the methods of DiceSum on a group built directly from its    *)
(* children, as the unit tests build it (DiceSum(rolls).highest(count)):   *)
(* highest, lowest, eq/le/lt/ge/gt, crit_le and crit_ge, and then the      *)
(* contributions, value() and kept_indexes() of the group they return.     *)
(***************************************************************************)
ModifierValues == {-1, 0}

\* the computations that may stand at position i among the children
ChildrenAt(i) ==
    {DieRoll(i, sides, res) : <<sides, res>> \in {p \in (1..MaxSides) \X (1..MaxSides) : p[2] <= p[1]}}
        \cup {FromD6(i, face) : face \in 1..6}
        \cup {Modifier(i, value) : value \in ModifierValues}

\* the lists of n children
RECURSIVE ListsOf(_)
ListsOf(n) ==
    IF n = 0 THEN {<<>>}
    ELSE {Append(dice, child) : dice \in ListsOf(n - 1), child \in ChildrenAt(n)}

ChildLists == UNION {ListsOf(n) : n \in 0..MaxDice}

InitGroup ==
    /\ group \in {DiceSum(dice) : dice \in ChildLists}
    /\ answer = NoAnswer
    /\ consumed = <<>> /\ context = <<>> /\ draws = <<>>
    /\ status = "running" /\ result = <<>> /\ text = <<>> /\ tokens = <<>>

\* what a caller reads off the group a method returned
Answer(op, arg, g) ==
    [op |-> op, arg |-> arg, raised |-> <<>>,
     values |-> TransformerCall(g.transformer, g.dice),
     value |-> Value(g),
     kept_indexes |-> KeptIndexes(g)]

\* a method that raised
Raised(op, arg, exc) ==
    [op |-> op, arg |-> arg, raised |-> <<exc>>,
     values |-> <<>>, value |-> Zero, kept_indexes |-> <<>>]

Fresh == answer = NoAnswer

KeepError == Error("DiceSyntaxError", "Can't keep less than one die")

\* DiceSum.highest
SumHighest ==
    \E count \in 0..MaxKeep :
        /\ Fresh
        /\ group' = IF count < 1 THEN group ELSE Keep(group, Highest(count))
        /\ answer' = IF count < 1 THEN Raised("highest", count, KeepError)
                     ELSE Answer("highest", count, Keep(group, Highest(count)))
        /\ UNCHANGED <<consumed, context, draws, status, result, text, tokens>>

\* DiceSum.lowest
SumLowest ==
    \E count \in 0..MaxKeep :
        /\ Fresh
        /\ group' = IF count < 1 THEN group ELSE Keep(group, Lowest(count))
        /\ answer' = IF count < 1 THEN Raised("lowest", count, KeepError)
                     ELSE Answer("lowest", count, Keep(group, Lowest(count)))
        /\ UNCHANGED <<consumed, context, draws, status, result, text, tokens>>

\* DiceSum.eq, le, lt, ge, gt
SumThreshold ==
    \E oper \in PlainThresholdTypes : \E threshold \in 0..MaxThreshold :
        /\ Fresh
        /\ group' = Plain(group, oper, threshold)
        /\ answer' = Answer(oper, threshold, Plain(group, oper, threshold))
        /\ UNCHANGED <<consumed, context, draws, status, result, text, tokens>>

\* DiceSum.crit_le
SumCritLe ==
    \E threshold \in 0..MaxThreshold :
        /\ Fresh
        /\ group' = CritLe(group, threshold)
        /\ answer' = Answer("CritLE", threshold, CritLe(group, threshold))
        /\ UNCHANGED <<consumed, context, draws, status, result, text, tokens>>

\* DiceSum.crit_ge
SumCritGe ==
    \E threshold \in 0..MaxThreshold :
        /\ Fresh
        /\ group' = CritGe(group, threshold)
        /\ answer' = Answer("CritGE", threshold, CritGe(group, threshold))
        /\ UNCHANGED <<consumed, context, draws, status, result, text, tokens>>

\* DiceGroup.value (and result, effects) of the group as it was built
GroupValue ==
    /\ Fresh
    /\ answer' = Answer("value", 0, group)
    /\ UNCHANGED <<consumed, context, draws, status, result, group, text, tokens>>

NextGroup ==
    \/ SumHighest
    \/ SumLowest
    \/ SumThreshold
    \/ SumCritLe
    \/ SumCritGe
    \/ GroupValue

SpecGroup == InitGroup /\ [][NextGroup]_vars

(***************************************************************************)
(* SpecExpr: eval_expr up to the formatting: an expression is tokenized    *)
(* and its tokens are evaluated by high_roller() or by low_roller(), the   *)
(* two deterministic rollers of the tests.                                 *)
(***************************************************************************)
Operands ==
    {<<"2", "0">>, <<"4", "2">>, <<"1", "d", "4">>, <<"3", "d", "2", "0">>,
     <<"(", "1", "d", "4", ")">>, <<"2", "c">>}

PlusSigns == {<<" ", "+", " ">>}

MinusSigns == {<<" ", "-", " ">>, <<"-">>}

\* postfix operators as written after the last operand
PostfixSuffixes == {<<"h">>, <<" ", "k", "l", "1">>, <<"<", "=", "2">>}

Expressions ==
    Operands \cup {a \o sign \o b : a \in Operands, b \in Operands, sign \in PlusSigns \cup MinusSigns}
        \cup {a \o sign \o b \o post :
                 a \in Operands, b \in Operands, sign \in PlusSigns, post \in PostfixSuffixes}

InitExpr ==
    /\ text \in Expressions
    /\ tokens = <<>>
    /\ status = "text"
    /\ result = <<>>
    /\ draws = <<>>
    /\ answer = NoAnswer
    /\ consumed = <<>> /\ context = <<>> /\ group = <<>>

\* tokenize(dice_expr)
TokenizeExpression ==
    /\ status = "text"
    /\ tokens' = Tokenize(text).tokens
    /\ status' = IF Tokenize(text).error = <<>> THEN "tokenized" ELSE "error"
    /\ result' = IF Tokenize(text).error = <<>> THEN result ELSE Tokenize(text).error[1]
    /\ UNCHANGED <<consumed, context, draws, group, answer, text>>

\* roll(tokens) with dice_roller = high_roller()
EvalExprHigh ==
    /\ status = "tokenized"
    /\ result' = Evaluate(HighRoller, tokens).result
    /\ draws' = Evaluate(HighRoller, tokens).log
    /\ status' = IF IsError(Evaluate(HighRoller, tokens).result) THEN "error" ELSE "done"
    /\ answer' = [op |-> "high"]
    /\ UNCHANGED <<consumed, context, group, text, tokens>>

\* roll(tokens) with dice_roller = low_roller()
EvalExprLow ==
    /\ status = "tokenized"
    /\ result' = Evaluate(LowRoller, tokens).result
    /\ draws' = Evaluate(LowRoller, tokens).log
    /\ status' = IF IsError(Evaluate(LowRoller, tokens).result) THEN "error" ELSE "done"
    /\ answer' = [op |-> "low"]
    /\ UNCHANGED <<consumed, context, group, text, tokens>>

NextExpr ==
    \/ TokenizeExpression
    \/ EvalExprHigh
    \/ EvalExprLow

SpecExpr == InitExpr /\ [][NextExpr]_vars

(***************************************************************************)
(* SpecAssoc: the two groupings of a sum of three dice, 1d2+(1d4+1d6) and  *)
(* (1d2+1d4)+1d6, evaluated by rollers that give the same three faces.     *)
(***************************************************************************)
RightGrouped ==
    <<"1", "d", "2", "+", "(", "1", "d", "4", "+", "1", "d", "6", ")">>

LeftGrouped ==
    <<"(", "1", "d", "2", "+", "1", "d", "4", ")", "+", "1", "d", "6">>

InitAssoc ==
    /\ draws \in {<<[sides |-> 2, face |-> f2], [sides |-> 4, face |-> f4], [sides |-> 6, face |-> f6]>> :
                      f2 \in 1..2, f4 \in 1..4, f6 \in 1..6}
    /\ answer = [op |-> "assoc", right |-> <<>>, left |-> <<>>]
    /\ text = <<>> /\ tokens = <<>>
    /\ status = "running" /\ result = <<>>
    /\ consumed = <<>> /\ context = <<>> /\ group = <<>>

\* evaluate(tokenize("1d2+(1d4+1d6)")) by a roller that gives the faces drawn
EvalRightGrouped ==
    /\ answer.right = <<>>
    /\ answer' = [answer EXCEPT !.right =
                      <<Evaluate(SeqRoller(Faces(draws)), Tokenize(RightGrouped).tokens).result>>]
    /\ text' = RightGrouped
    /\ tokens' = Tokenize(RightGrouped).tokens
    /\ UNCHANGED <<consumed, context, draws, status, result, group>>

\* evaluate(tokenize("(1d2+1d4)+1d6")) by a roller that gives the faces drawn
EvalLeftGrouped ==
    /\ answer.left = <<>>
    /\ answer' = [answer EXCEPT !.left =
                      <<Evaluate(SeqRoller(Faces(draws)), Tokenize(LeftGrouped).tokens).result>>]
    /\ text' = LeftGrouped
    /\ tokens' = Tokenize(LeftGrouped).tokens
    /\ UNCHANGED <<consumed, context, draws, status, result, group>>

NextAssoc ==
    \/ EvalRightGrouped
    \/ EvalLeftGrouped

SpecAssoc == InitAssoc /\ [][NextAssoc]_vars

(***************************************************************************)
(* SpecTokens: tokenize on the texts that the parser's tests write, a dice *)
(* term alone or followed by a postfix operator, combat dice, a negative   *)
(* number, after white space has been put between the two tokens and       *)
(* letters have been put in upper case.                                    *)
(***************************************************************************)
MaxSpaces == 2

\* the numbers written in a text: their digits and their value
Numerals ==
    {[text |-> <<"0">>, value |-> 0], [text |-> <<"1">>, value |-> 1],
     [text |-> <<"2", "0">>, value |-> 20]}

\* the postfix operators as written, and the class of token each one names
PostfixWords ==
    {[text |-> <<"h">>, type |-> "KeepHighest"], [text |-> <<"k", "h">>, type |-> "KeepHighest"],
     [text |-> <<"l">>, type |-> "KeepLowest"], [text |-> <<"k", "l">>, type |-> "KeepLowest"],
     [text |-> <<"<">>, type |-> "LT"], [text |-> <<"<", "=">>, type |-> "LE"],
     [text |-> <<">">>, type |-> "GT"], [text |-> <<">", "=">>, type |-> "GE"],
     [text |-> <<"<", "-">>, type |-> "CritLE"], [text |-> <<"-", ">">>, type |-> "CritGE"]}

\* the texts, each with the tokens that the tests expect of it and with the
\* place where its first token ends (0 when it is a single token)
Forms ==
    LET absent == [text |-> <<>>, value |-> 1]
        postfix(type, n) ==
            IF type = "KeepHighest" THEN KeepHighest(n)
            ELSE IF type = "KeepLowest" THEN KeepLowest(n)
            ELSE ThresholdOperator(type, n)
        dice == {[text |-> n.text \o <<"d">> \o m.text, cut |-> 0,
                  expected |-> <<Dice(n.value, m.value)>>] : n \in Numerals, m \in Numerals}
    IN  dice
        \cup {[text |-> d.text \o w.text \o k.text, cut |-> Len(d.text),
               expected |-> d.expected \o <<postfix(w.type, k.value)>>] :
                  d \in dice, w \in PostfixWords, k \in Numerals \cup {absent}}
        \cup {[text |-> k.text \o <<"c">>, cut |-> 0, expected |-> <<Combat(k.value)>>] :
                  k \in Numerals \cup {absent}}
        \cup {[text |-> <<"-">> \o k.text, cut |-> 0, expected |-> <<Constant(-k.value)>>] :
                  k \in Numerals}

InitTokens ==
    /\ \E f \in Forms :
          /\ text = f.text
          /\ answer = [op |-> "form", cut |-> f.cut, expected |-> f.expected]
    /\ tokens = <<>>
    /\ status = "text"
    /\ result = <<>>
    /\ draws = <<>> /\ consumed = <<>> /\ context = <<>> /\ group = <<>>

\* white space is put between the two tokens of the text
InsertSpace ==
    /\ status = "text"
    /\ answer.cut > 0
    /\ Cardinality({i \in 1..Len(text) : text[i] = " "}) < MaxSpaces
    /\ text' = SubSeq(text, 1, answer.cut) \o <<" ">> \o SubSeq(text, answer.cut + 1, Len(text))
    /\ UNCHANGED <<consumed, context, draws, status, result, group, answer, tokens>>

\* a letter of the text is put in upper case
ChangeCase ==
    \E i \in 1..Len(text) : \E upper \in DOMAIN LowerOf :
        /\ status = "text"
        /\ LowerOf[upper] = text[i]
        /\ text' = [text EXCEPT ![i] = upper]
        /\ UNCHANGED <<consumed, context, draws, status, result, group, answer, tokens>>

\* tokenize(text)
TokenizeText ==
    /\ status = "text"
    /\ tokens' = Tokenize(text).tokens
    /\ status' = IF Tokenize(text).error = <<>> THEN "tokenized" ELSE "error"
    /\ result' = IF Tokenize(text).error = <<>> THEN result ELSE Tokenize(text).error[1]
    /\ UNCHANGED <<consumed, context, draws, group, answer, text>>

NextTokens ==
    \/ InsertSpace
    \/ ChangeCase
    \/ TokenizeText

SpecTokens == InitTokens /\ [][NextTokens]_vars

(***************************************************************************)
(* SpecCombat: combat dice as written, "c" and "Nc", tokenized and then    *)
(* rolled by a roller that gives any faces.                                *)
(***************************************************************************)
\* the texts of combat dice, each with the number of dice it asks for
CombatTexts ==
    {[text |-> <<"c">>, count |-> 1]}
        \cup {[text |-> <<<<"0", "1", "2", "3", "4", "5", "6", "7", "8", "9">>[n + 1], "c">>,
               count |-> n] : n \in 0..MaxDice}

InitCombat ==
    /\ \E t \in CombatTexts :
          /\ text = t.text
          /\ answer = [op |-> "combat", count |-> t.count]
    /\ tokens = <<>>
    /\ status = "text"
    /\ result = <<>>
    /\ draws = <<>> /\ consumed = <<>> /\ context = <<>> /\ group = <<>>

\* roll(tokens) with a roller that answers the draws with the given faces
RollCombat ==
    /\ status = "tokenized"
    /\ \E faces \in [1..tokens[1].count -> 1..6] :
          /\ result' = Evaluate(SeqRoller(faces), tokens).result
          /\ draws' = Evaluate(SeqRoller(faces), tokens).log
          /\ status' = IF IsError(Evaluate(SeqRoller(faces), tokens).result)
                       THEN "error" ELSE "done"
    /\ UNCHANGED <<consumed, context, group, answer, text, tokens>>

NextCombat ==
    \/ TokenizeExpression
    \/ RollCombat

SpecCombat == InitCombat /\ [][NextCombat]_vars

(***************************************************************************)
(* SpecAdd: add_computation on every pair of operands: a leaf, an open     *)
(* group, a closed group, or the group that apply_postfix makes of an open *)
(* pair of dice for a keep or threshold token.                             *)
(***************************************************************************)
\* the postfix tokens that tokenize can make, up to the bounds
AddPostfixTokens ==
    {KeepHighest(count) : count \in 1..MaxKeep}
        \cup {KeepLowest(count) : count \in 1..MaxKeep}
        \cup {ThresholdOperator(w.type, threshold) :
                 w \in {p \in PostfixWords : p.type \notin KeepTypes},
                 threshold \in 0..MaxThreshold}

\* the operands whose dice are numbered from base on, each with the postfix
\* token that made it, if one did
AddOperands(base) ==
    LET die == DieRoll(base + 1, 2, 2)
        pair == DiceSum(<<die, DieRoll(base + 2, 2, 1)>>)
        plain(node) == [node |-> node, postfix |-> <<>>]
    IN  {plain(die), plain(Modifier(base + 1, -1)), plain(FromD6(base + 1, 5)),
         plain(DiceSum(<<>>)), plain(DiceSum(<<die>>)), plain(pair),
         plain(Close(DiceSum(<<>>))), plain(Close(pair)),
         plain(Close(DiceSum(<<Modifier(base + 3, -1), Close(pair)>>)))}
        \cup {[node |-> ApplyPostfix(pair, t), postfix |-> <<t>>] : t \in AddPostfixTokens}

InitAdd ==
    /\ \E left \in AddOperands(0) : \E right \in AddOperands(10) :
          /\ context = <<left.node, right.node>>
          /\ answer = [op |-> "add", postfix |-> <<left.postfix, right.postfix>>]
    /\ status = "running"
    /\ result = <<>>
    /\ draws = <<>> /\ consumed = <<>> /\ group = <<>> /\ text = <<>> /\ tokens = <<>>

\* DiceGroup.add_computation(left, right)
AddOperandPair ==
    /\ status = "running"
    /\ result' = AddComputation(context[1], context[2])
    /\ status' = IF IsError(AddComputation(context[1], context[2])) THEN "error" ELSE "done"
    /\ UNCHANGED <<consumed, context, draws, group, answer, text, tokens>>

NextAdd == AddOperandPair

SpecAdd == InitAdd /\ [][NextAdd]_vars

(***************************************************************************)
(* SpecTies: keep-highest and keep-lowest on groups of TieDice children    *)
(* that tie in magnitude: dice of two and of three sides and combat dice.  *)
(***************************************************************************)
TieDice == 4

\* the children that may stand at position i
TieChildrenAt(i) ==
    <<DieRoll(i, 2, 1), DieRoll(i, 2, 2), DieRoll(i, 3, 2), DieRoll(i, 3, 3),
      FromD6(i, 1), FromD6(i, 5)>>

InitTies ==
    /\ group \in {DiceSum([i \in 1..TieDice |-> TieChildrenAt(i)[f[i]]]) :
                     f \in [1..TieDice -> 1..6]}
    /\ answer = NoAnswer
    /\ consumed = <<>> /\ context = <<>> /\ draws = <<>>
    /\ status = "running" /\ result = <<>> /\ text = <<>> /\ tokens = <<>>

NextTies ==
    \/ SumHighest
    \/ SumLowest

SpecTies == InitTies /\ [][NextTies]_vars

(***************************************************************************)
(* Notions that the properties below share.                                *)
(***************************************************************************)
\* the dice of a tree, read depth first and left to right
RECURSIVE DiceOf(_)
DiceOf(dc) ==
    IF dc.kind = "group"
    THEN LET RECURSIVE Walk(_)
             Walk(i) == IF i > Len(dc.dice) THEN <<>> ELSE DiceOf(dc.dice[i]) \o Walk(i + 1)
         IN  Walk(1)
    ELSE IF dc.kind = "mod" THEN <<>> ELSE <<dc>>

(***************************************************************************)
(* Properties of the methods of DiceSum (specification SpecGroup).         *)
(***************************************************************************)
Answered(ops) == answer.op \in ops /\ answer.arg >= 1

Children == group.dice

\* the sets of positions that a keep of the given count may have selected:
\* min(count, n) positions, none of them beaten by a position left out, whose
\* children contribute their own value while the others contribute zero
ChosenSets ==
    {S \in SUBSET (1..Len(Children)) :
        /\ Cardinality(S) = Min2(answer.arg, Len(Children))
        /\ \A i \in S : \A j \in (1..Len(Children)) \ S :
              IF answer.op = "highest"
              THEN Magnitude(Children[i]) >= Magnitude(Children[j])
              ELSE Magnitude(Children[i]) <= Magnitude(Children[j])
        /\ \A i \in 1..Len(Children) :
              answer.values[i] = IF i \in S THEN Value(Children[i]) ELSE Zero}

\* the sum of the count largest (or smallest) of a sequence of integers
RECURSIVE SumExtreme(_, _, _)
SumExtreme(largest, count, mags) ==
    IF count = 0 \/ mags = <<>> THEN 0
    ELSE LET best == CHOOSE i \in 1..Len(mags) :
                        \A j \in 1..Len(mags) :
                            IF largest THEN mags[i] >= mags[j] ELSE mags[i] <= mags[j]
         IN  mags[best] + SumExtreme(largest, count - 1,
                                     SubSeq(mags, 1, best - 1) \o SubSeq(mags, best + 1, Len(mags)))

Magnitudes == [i \in 1..Len(Children) |-> Magnitude(Children[i])]

\* C1: in a group of n children under keep-highest(k), k >= 1, each child
\* contributes its own value if selected and zero otherwise, and the group's
\* magnitude is the sum of the min(k, n) largest child magnitudes; under
\* keep-lowest(k) it is the sum of the min(k, n) smallest.  A count above n
\* keeps all n children and raises nothing.
C1_KeepSum ==
    Answered({"highest", "lowest"}) =>
        /\ answer.raised = <<>>
        /\ Len(answer.values) = Len(Children)
        /\ ChosenSets # {}
        /\ answer.value.m = SumExtreme(answer.op = "highest", answer.arg, Magnitudes)
        /\ answer.arg >= Len(Children) => answer.values = [i \in 1..Len(Children) |-> Value(Children[i])]

\* keep-highest(2) has answered for three children of three different
\* magnitudes, one of them negative
C1_Witness ==
    /\ Answered({"highest"})
    /\ answer.arg = 2
    /\ Len(Children) = 3
    /\ Cardinality({Magnitudes[i] : i \in 1..3}) = 3
    /\ \E i \in 1..3 : Magnitudes[i] < 0
    /\ answer.value.m = SumExtreme(TRUE, 2, Magnitudes)

\* whether a magnitude satisfies "magnitude op N"
Satisfies(op, m, n) ==
    CASE op \in {"LE", "CritLE"} -> m <= n
      [] op \in {"GE", "CritGE"} -> m >= n
      [] op = "LT" -> m < n
      [] op = "GT" -> m > n
      [] op = "EQ" -> m = n

Counted(child) == IF Satisfies(answer.op, Magnitude(child), answer.arg) THEN One ELSE Zero

\* the override of a natural 1 and of a natural maximum under the answered
\* crit threshold
ForceMin == IF answer.op = "CritLE" THEN Num(2, 0) ELSE Num(0, 1)

ForceMax == IF answer.op = "CritLE" THEN Num(0, 1) ELSE Num(2, 0)

ThreeD20(src, type) ==
    Value(Evaluate(src, <<Dice(3, 20), ThresholdOperator(type, 10)>>).result)

ThreeD20Values ==
    <<ThreeD20(HighRoller, "CritLE"), ThreeD20(HighRoller, "CritGE"),
      ThreeD20(LowRoller, "CritLE"), ThreeD20(LowRoller, "CritGE")>>

C7_ThresholdCount ==
    Answered(PlainThresholdTypes) =>
        /\ answer.value.m =
              Cardinality({i \in 1..Len(Children) :
                              Satisfies(answer.op, Magnitude(Children[i]), answer.arg)})
        /\ answer.value.e = 0
        /\ answer.raised = <<>>

\* a plain threshold has answered for a natural 1, a natural maximum and a
\* combat die that shows an effect, counting some and not all of them
C7_Witness ==
    /\ Answered(PlainThresholdTypes)
    /\ Len(Children) = 3
    /\ \E i \in 1..3 : Children[i].kind = "die" /\ Children[i].result = 1
    /\ \E i \in 1..3 : Children[i].kind = "die" /\ Children[i].sides > 1
                          /\ Children[i].result = Children[i].sides
    /\ \E i \in 1..3 : Children[i].kind = "combat" /\ Children[i].effect
    /\ answer.value.m \in {1, 2}

\* the positions that kept_indexes() reports (it counts from 0)
Reported == {answer.kept_indexes[j] + 1 : j \in 1..Len(answer.kept_indexes)}

Increasing(seq) == \A j \in 1..(Len(seq) - 1) : seq[j] < seq[j + 1]

\* C8 as stated: for keep-highest or keep-lowest with count k over n children
\* kept_indexes() reports exactly min(k, n) indices, those of the children
\* the selection chose, whatever their magnitudes, 0 included.
C8_AsStated ==
    Answered({"highest", "lowest"}) =>
        /\ Len(answer.kept_indexes) = Min2(answer.arg, Len(Children))
        /\ Reported \in ChosenSets

\* C8: for keep-highest or keep-lowest with count k over n children
\* kept_indexes() reports, in increasing order, the indices of those among the
\* min(k, n) chosen children that have a magnitude other than 0: a chosen child
\* of magnitude 0 (a combat die showing 3 or 4, a constant 0) is not reported,
\* so min(k, n) indices are reported exactly when no chosen child has magnitude 0.
C8_KeptIndexesNonZero ==
    Answered({"highest", "lowest"}) =>
        /\ \E S \in ChosenSets : Reported = {i \in S : Magnitude(Children[i]) # 0}
        /\ Increasing(answer.kept_indexes)
        /\ Len(answer.kept_indexes) <= Min2(answer.arg, Len(Children))
        /\ (\A i \in 1..Len(Children) : Magnitude(Children[i]) # 0)
              => (Len(answer.kept_indexes) = Min2(answer.arg, Len(Children)) /\ Reported \in ChosenSets)

\* keep-highest(2) has answered for a die, a combat die showing no success and
\* a negative constant: of the two children chosen only the die is reported
C8_Witness ==
    /\ Answered({"highest"})
    /\ answer.arg = 2
    /\ Len(Children) = 3
    /\ \E i \in 1..3 : Children[i].kind = "combat" /\ Magnitude(Children[i]) = 0
                          /\ answer.values[i] = Value(Children[i])
    /\ \E i \in 1..3 : Children[i].kind = "mod" /\ Magnitude(Children[i]) < 0
    /\ \E i \in 1..3 : Children[i].kind = "die" /\ answer.kept_indexes = <<i - 1>>

\* what a leaf contributes by its own fields: its result (a modifier's
\* value) and 1 for an effect
OwnResult(child) == IF child.kind = "mod" THEN child.value ELSE child.result

OwnEffects(child) == IF child.kind = "combat" /\ child.effect THEN 1 ELSE 0

RECURSIVE Total(_)
Total(ints) == IF ints = <<>> THEN 0 ELSE Head(ints) + Total(Tail(ints))

\* the four combat dice 2, 1 with effect, 0, 1 with effect have result 4 and
\* effects 2
CombatDiceExample ==
    Value(DiceSum(<<CombatDieRoll(1, 2, FALSE), CombatDieRoll(2, 1, TRUE),
                    CombatDieRoll(3, 0, FALSE), CombatDieRoll(4, 1, TRUE)>>)) = Num(4, 2)

\* C15: a group whose transformer is the identity has as result the sum of
\* the magnitudes of all its children and as effects the sum of their
\* effects, neither channel taking anything from the other; four combat dice
\* showing 2, 1 with effect, 0 and 1 with effect have result 4 and effects 2.
C15_IdentitySum ==
    (answer # NoAnswer /\ answer.raised = <<>> /\ group.transformer = IdentityTransformer) =>
        /\ answer.value.m = Total([i \in 1..Len(Children) |-> OwnResult(Children[i])])
        /\ answer.value.e = Total([i \in 1..Len(Children) |-> OwnEffects(Children[i])])
        /\ CombatDiceExample

\* the value of an untransformed group of a die, a combat die with an effect
\* and a negative modifier has been read
C15_Witness ==
    /\ answer.op = "value"
    /\ Len(Children) = 3
    /\ Children[1].kind = "die" /\ Children[1].result = 2
    /\ Children[2].kind = "combat" /\ Children[2].effect
    /\ Children[3].kind = "mod" /\ Children[3].value = -1
    /\ answer.value = Num(2, 1)

(***************************************************************************)
(* Properties of the two groupings (specification SpecAssoc).              *)
(***************************************************************************)
BothGrouped == answer.op = "assoc" /\ answer.right # <<>> /\ answer.left # <<>>

\* C5: for any faces given to the same three dice, 1d2+(1d4+1d6) and
\* (1d2+1d4)+1d6 have the same total magnitude, the plain sum of the three
\* faces, although the two result trees differ in shape.
C5_SameTotal ==
    /\ (answer.op = "assoc" /\ answer.right # <<>>) =>
          Magnitude(answer.right[1]) = draws[1].face + draws[2].face + draws[3].face
    /\ (answer.op = "assoc" /\ answer.left # <<>>) =>
          Magnitude(answer.left[1]) = draws[1].face + draws[2].face + draws[3].face
    /\ BothGrouped =>
          /\ Magnitude(answer.right[1]) = Magnitude(answer.left[1])
          /\ answer.right[1] # answer.left[1]
          /\ DiceOf(answer.right[1]) = DiceOf(answer.left[1])

\* both groupings are evaluated, the first child of the one being a die and
\* the first child of the other a closed group of two dice
C5_Witness ==
    /\ BothGrouped
    /\ answer.right[1].dice[1].kind = "die"
    /\ answer.left[1].dice[1].kind = "group"
    /\ answer.left[1].dice[1].is_closed
    /\ Len(answer.left[1].dice[1].dice) = 2
    /\ draws[1].face # draws[2].face

(***************************************************************************)
(* Properties of eval_expr (specification SpecExpr).                       *)
(***************************************************************************)
Roller == IF answer.op = "low" THEN LowRoller ELSE HighRoller

\* the total magnitude of an expression from the roller that evaluated
MagnitudeOf(expression) ==
    Magnitude(Evaluate(Roller, Tokenize(expression).tokens).result)

\* C10: a - b evaluates as a plus the negation of b, so that its total
\* magnitude is magnitude(a) - magnitude(b) for every right operand b, a
\* constant (3d20 - 42) as well as a dice term or a group (20 - 1d4).
C10_AsStated ==
    \A a \in Operands : \A b \in Operands : \A sign \in MinusSigns :
        text = a \o sign \o b =>
            /\ status # "error"
            /\ status = "done" => Magnitude(result) = MagnitudeOf(a) - MagnitudeOf(b)

\* what the tokenizer of parser.py does give: a minus sign before a constant
\* is the constant's sign, and a subtracted constant is subtracted; before
\* anything else the minus sign is no token at all and tokenize raises
C10_MinusIsASign ==
    \A a \in Operands : \A b \in Operands : \A sign \in MinusSigns :
        (text = a \o sign \o b /\ status # "text") =>
            IF Tokenize(b).tokens[1].type = "Constant"
            THEN /\ tokens = Tokenize(a).tokens \o <<Constant(-Tokenize(b).tokens[1].value)>>
                 /\ status = "done" => Magnitude(result) = MagnitudeOf(a) - MagnitudeOf(b)
            ELSE /\ status = "error"
                 /\ result = Error("TokenizeError", <<"Unknown token", "-">>)

\* 3d20 - 42 has been evaluated by the roller that always gives the maximum
C10_ConstantWitness ==
    /\ text = <<"3", "d", "2", "0", " ", "-", " ", "4", "2">>
    /\ status = "done"
    /\ answer.op = "high"
    /\ Magnitude(result) = 18

(***************************************************************************)
(* Properties of the evaluator (specification Spec).                       *)
(***************************************************************************)
LastToken == consumed[Len(consumed)]

Top == context[Len(context)]

SyntaxErrorNoOperand == Error("DiceSyntaxError", "operator must follow dice roll or group")

\* C2: whenever evaluate has returned, what it returned is a dice group and
\* that group is closed, whatever the token sequence was: empty, a single
\* term, or one that ends in a postfix operator.
C2_ResultClosed == status = "done" => (IsDiceSum(result) /\ result.is_closed)

\* evaluate has returned for a sequence that ends in a postfix operator, whose
\* group was open and transformed until the return closed it
C2_Witness ==
    /\ status = "done"
    /\ Len(consumed) >= 2
    /\ LastToken.type \in PostfixTypes
    /\ ~Top.is_closed
    /\ TransformerBool(result.transformer)
    /\ result.is_closed

\* a turn of the loop that takes a postfix operator while the context is not empty
PostfixTurn ==
    /\ status = "running"
    /\ Len(consumed') = Len(consumed) + 1
    /\ consumed'[Len(consumed')].type \in PostfixTypes
    /\ context # <<>>

OpenUntransformed(node) ==
    IsDiceSum(node) /\ ~node.is_closed /\ ~TransformerBool(node.transformer)

\* C3 as stated: a postfix operator whose operand is anything but an open
\* group without a transformer fails with the semantic error, a closed
\* (parenthesised) group and a group that already carries a transformer included.
C3_AsStated ==
    [][(PostfixTurn /\ ~OpenUntransformed(Top))
          => (status' = "error" /\ result' = SyntaxErrorNoOperand)]_vars

\* the transformer that a postfix token asks for
PostfixSelects(postfix, transformer) ==
    IF postfix.type \in KeepTypes
    THEN /\ transformer.cls = "KeepSelected"
         /\ transformer.selector.count = postfix.count
         /\ transformer.selector.name = (IF postfix.type = "KeepHighest" THEN "high" ELSE "low")
    ELSE IF postfix.threshold = 0
         THEN transformer = IdentityTransformer
         ELSE /\ transformer.cls = "CountSelected"
              /\ transformer.selector.count = postfix.threshold
              /\ transformer.selector.name = "threshold"

\* C3: a postfix operator fails with the semantic error exactly when its
\* operand is not a dice group (a bare constant, an opening parenthesis).  On
\* any dice group, a closed one and one that already carries a transformer
\* included, it succeeds unless it keeps fewer than one die: the operand is
\* replaced by an open group of the same children that carries the new
\* operator's transformer in place of the old one.
C3_PostfixOnAnyGroup ==
    [][PostfixTurn =>
        LET postfix == consumed'[Len(consumed')]
        IN  IF ~IsDiceSum(Top)
            THEN status' = "error" /\ result' = SyntaxErrorNoOperand
            ELSE IF postfix.type \in KeepTypes /\ postfix.count < 1
            THEN status' = "error" /\ result'.error = "DiceSyntaxError"
            ELSE /\ status' = "running"
                 /\ Len(context') = Len(context)
                 /\ context'[Len(context')].dice = Top.dice
                 /\ ~context'[Len(context')].is_closed
                 /\ PostfixSelects(postfix, context'[Len(context')].transformer)]_vars

\* a postfix operator has just been applied to a closed group of two dice, and
\* the loop runs on with the open group that keeps some of them
C3_Witness ==
    /\ status = "running"
    /\ Len(consumed) >= 4
    /\ consumed[Len(consumed) - 1] = GROUP_END
    /\ LastToken.type \in KeepTypes
    /\ IsDiceSum(Top)
    /\ Len(Top.dice) >= 2
    /\ ~Top.is_closed
    /\ Top.transformer.selector.count = LastToken.count

\* C4: a postfix operator that directly follows a bare constant makes
\* evaluation fail with DiceSyntaxError "operator must follow dice roll or
\* group": the evaluation stops at that operator.
C4_PostfixAfterConstant ==
    \A i \in 2..Len(consumed) :
        (consumed[i].type \in PostfixTypes /\ consumed[i - 1].type = "Constant")
            => /\ i = Len(consumed)
               /\ status = "error"
               /\ result = SyntaxErrorNoOperand

\* a dice term, a constant and then a postfix operator have been taken
C4_Witness ==
    /\ Len(consumed) >= 3
    /\ LastToken.type \in PostfixTypes
    /\ consumed[Len(consumed) - 1].type = "Constant"
    /\ consumed[Len(consumed) - 2].type = "Dice"
    /\ status = "error"

\* the sides asked of the randomness source by a token sequence, in token order
RECURSIVE ExpectedSides(_)
ExpectedSides(toks) ==
    IF toks = <<>> THEN <<>>
    ELSE (CASE Head(toks).type = "Dice" -> [i \in 1..Head(toks).count |-> Head(toks).sides]
            [] Head(toks).type = "Combat" -> [i \in 1..Head(toks).count |-> 6]
            [] OTHER -> <<>>) \o ExpectedSides(Tail(toks))

\* whether the i-th draw was made for a combat die
RECURSIVE ExpectedCombat(_)
ExpectedCombat(toks) ==
    IF toks = <<>> THEN <<>>
    ELSE (CASE Head(toks).type = "Dice" -> [i \in 1..Head(toks).count |-> FALSE]
            [] Head(toks).type = "Combat" -> [i \in 1..Head(toks).count |-> TRUE]
            [] OTHER -> <<>>) \o ExpectedCombat(Tail(toks))

\* C9: in a successful evaluation the randomness source is called once per
\* physical die, in token order (a Dice(count, sides) token asks count times
\* for sides, a Combat(count) token count times for 6), and the i-th draw is
\* the i-th die of the returned tree read left to right.
C9_DrawOrder ==
    status = "done" =>
        /\ [i \in 1..Len(draws) |-> draws[i].sides] = ExpectedSides(consumed)
        /\ Len(DiceOf(result)) = Len(draws)
        /\ \A i \in 1..Len(draws) :
              DiceOf(result)[i] = IF ExpectedCombat(consumed)[i]
                                  THEN FromD6(i, draws[i].face)
                                  ELSE DieRoll(i, draws[i].sides, draws[i].face)

\* an evaluation has returned after a combat die between two dice terms, the
\* two dice of the last term showing different faces
C9_Witness ==
    /\ status = "done"
    /\ Len(draws) >= 5
    /\ ExpectedCombat(consumed)[3]
    /\ ~ExpectedCombat(consumed)[2]
    /\ draws[Len(draws)].face # draws[Len(draws) - 1].face
    /\ Len(DiceOf(result)) = Len(draws)

\* the nesting depth after a token sequence: opened minus closed parentheses
RECURSIVE Depth(_)
Depth(toks) ==
    IF toks = <<>> THEN 0
    ELSE Depth(SubSeq(toks, 1, Len(toks) - 1))
         + (IF toks[Len(toks)] = GROUP_START THEN 1
            ELSE IF toks[Len(toks)] = GROUP_END THEN -1 ELSE 0)

\* a closing parenthesis that nothing opened
UnmatchedEnd(toks) == \E i \in 1..Len(toks) : Depth(SubSeq(toks, 1, i)) < 0

\* an opening parenthesis that nothing closes
UnclosedStart(toks) == ~UnmatchedEnd(toks) /\ Depth(toks) > 0

NoPostfix(toks) == \A i \in 1..Len(toks) : toks[i].type \notin PostfixTypes

IsSyntaxError == status = "error" /\ result.error = "DiceSyntaxError"

\* C11: an evaluation of a token sequence with unbalanced parentheses, a
\* closing one that nothing opened or an opening one that nothing closes,
\* ends in DiceSyntaxError and returns no result.  (Sequences without postfix
\* operators, so that nothing else can fail.)
C11_AsStated ==
    (status # "running" /\ NoPostfix(consumed)
         /\ (UnmatchedEnd(consumed) \/ UnclosedStart(consumed)))
        => IsSyntaxError

\* the half of C11 that the code keeps: an opening parenthesis that nothing
\* closes is still in the context when eval_summation returns, and
\* evaluate_group refuses it
C11_UnclosedIsSyntaxError ==
    (status # "running" /\ NoPostfix(consumed) /\ UnclosedStart(consumed))
        => (status = "error" /\ result = Error("DiceSyntaxError", "Illegal token in group"))

\* an evaluation of "( 2d2" has ended in DiceSyntaxError
C11_Witness ==
    /\ Len(consumed) = 2
    /\ consumed[1] = GROUP_START
    /\ consumed[2].type = "Dice"
    /\ IsSyntaxError

\* a token that ends an operand, and one that begins an operand
EndsOperand(token) == token = GROUP_END \/ token.type \in {"Dice", "Combat"}

BeginsOperand(token) == token = GROUP_START \/ token.type \in {"Dice", "Combat"}

\* two operands with no operator between them
Adjacent(toks) ==
    \E i \in 2..Len(toks) : EndsOperand(toks[i - 1]) /\ BeginsOperand(toks[i])

\* no dice term of no dice and no empty pair of parentheses
NoEmptyOperand(toks) ==
    \A i \in 1..Len(toks) :
        /\ toks[i].type \in {"Dice", "Combat"} => toks[i].count >= 1
        /\ (i > 1 /\ toks[i] = GROUP_END) => toks[i - 1] # GROUP_START

\* C12: an evaluation of a token sequence in which an operand directly follows
\* another operand, no operator between them, ends in DiceSyntaxError.
\* (Sequences of non-empty operands with balanced parentheses and without
\* postfix operators, so that nothing else can fail.)
C12_AsStated ==
    (status # "running" /\ NoPostfix(consumed) /\ Depth(consumed) = 0
         /\ ~UnmatchedEnd(consumed) /\ NoEmptyOperand(consumed) /\ Adjacent(consumed))
        => IsSyntaxError

\* what the code does with them: the loop collects the operands in its
\* context, and the return puts the dice of all of them in one group
C12_AdjacentOperandsAreSummed ==
    (status # "running" /\ NoPostfix(consumed) /\ Depth(consumed) = 0
         /\ ~UnmatchedEnd(consumed) /\ Adjacent(consumed))
        => (status = "done" /\ Len(DiceOf(result)) = Len(draws))

\* an evaluation of two adjacent dice terms has ended
C12_Witness ==
    /\ status # "running"
    /\ Len(consumed) = 2
    /\ consumed[1].type = "Dice" /\ consumed[1].count > 0
    /\ consumed[2].type = "Dice" /\ consumed[2].count > 0

\* the token at position i is a postfix operator with no operand before it:
\* it is the first token, or it follows an opening parenthesis or a plus sign
PostfixWithoutOperand(toks, i) ==
    /\ toks[i].type \in PostfixTypes
    /\ (i = 1 \/ toks[i - 1] \in {GROUP_START, ADD})

\* C13: a postfix operator with no operand before it, as the first token,
\* right after an opening parenthesis or right after a plus sign, makes the
\* evaluation fail with DiceSyntaxError: the evaluation stops at it.
C13_AsStated ==
    \A i \in 1..Len(consumed) :
        PostfixWithoutOperand(consumed, i)
            => (i = Len(consumed) /\ IsSyntaxError)

\* a postfix operator right after an opening parenthesis has stopped the
\* evaluation with DiceSyntaxError
C13_Witness ==
    /\ Len(consumed) >= 2
    /\ consumed[Len(consumed) - 1] = GROUP_START
    /\ LastToken.type \in PostfixTypes
    /\ status = "error"
    /\ result = SyntaxErrorNoOperand

(***************************************************************************)
(* Properties of tokenize, checked under SpecTokens.                       *)
(***************************************************************************)
\* C14: tokenize gives a dice term as a single Dice token of its count and
\* sides, a dice term followed by h, kh, l or kl as that token and a keep
\* token of count 1, of count K when K is written after the letters, and a
\* minus sign followed by K as the constant -K; white space between the two
\* tokens and upper-case letters change nothing of it.  (The texts also
\* cover the threshold operators, combat dice and the numeral 0.)
C14_TokensOfText ==
    status # "text" => (status = "tokenized" /\ tokens = answer.expected)

\* "20D1 KH20" has been tokenized: a text of two tokens with white space
\* between them and all its letters in upper case
C14_Witness ==
    /\ status = "tokenized"
    /\ text = <<"2", "0", "D", "1", " ", "K", "H", "2", "0">>
    /\ tokens = <<Dice(20, 1), KeepHighest(20)>>

(***************************************************************************)
(* Properties of combat dice, checked under SpecCombat.                    *)
(***************************************************************************)
\* the combat die that each face of the d6 stands for
CombatTable ==
    <<[result |-> 1, effect |-> FALSE], [result |-> 2, effect |-> FALSE],
      [result |-> 0, effect |-> FALSE], [result |-> 0, effect |-> FALSE],
      [result |-> 1, effect |-> TRUE], [result |-> 1, effect |-> TRUE]>>

\* C16: the text Nc evaluates to a group of exactly N children, the text c to
\* a group of one; each child comes from one draw of a six-sided die and is
\* what the table makes of its face: 1 gives 1, 2 gives 2, 3 and 4 give 0,
\* 5 and 6 give 1 with an effect.
C16_CombatDice ==
    (answer.op = "combat" /\ status \notin {"text", "tokenized"}) =>
        /\ status = "done"
        /\ tokens = <<Combat(answer.count)>>
        /\ Len(result.dice) = answer.count
        /\ Len(draws) = answer.count
        /\ \A i \in 1..answer.count :
              /\ draws[i].sides = 6
              /\ result.dice[i].kind = "combat"
              /\ result.dice[i].result = CombatTable[draws[i].face].result
              /\ result.dice[i].effect = CombatTable[draws[i].face].effect

\* "3c" has been rolled with the faces 2, 4 and 6: three children, of value
\* 2, 0 and 1 with an effect
C16_Witness ==
    /\ status = "done"
    /\ text = <<"3", "c">>
    /\ [i \in 1..3 |-> draws[i].face] = <<2, 4, 6>>
    /\ Value(result) = Num(3, 1)

\* the numbers that a token carries
NumbersOf(token) ==
    IF token.type = "Dice" THEN {token.count, token.sides}
    ELSE IF token.type \in {"Combat", "KeepHighest", "KeepLowest"} THEN {token.count}
    ELSE IF token.type \in PlainThresholdTypes \cup CritThresholdTypes THEN {token.threshold}
    ELSE {}

\* C17: every token that tokenize produces carries positive numbers only: a
\* Dice token a count and sides of at least 1, a Combat token and a keep token
\* a count of at least 1, a threshold or critical token a value of at least 1.
C17_AsStated ==
    status = "tokenized" =>
        \A i \in 1..Len(tokens) : \A n \in NumbersOf(tokens[i]) : n >= 1

\* "1d20<=1" has been tokenized: a text that writes no zero gives tokens
\* that carry none
C17_Witness ==
    /\ status = "tokenized"
    /\ text = <<"1", "d", "2", "0", "<", "=", "1">>
    /\ tokens = <<Dice(1, 20), ThresholdOperator("LE", 1)>>

(***************************************************************************)
(* Properties of add_computation, checked under SpecAdd.                   *)
(***************************************************************************)
Left == context[1]

Right == context[2]

Added == answer.op = "add" /\ status # "running"

ClosedGroup(dc) == IsGroup(dc) /\ dc.is_closed /\ dc.dice # <<>>

NonEmpty(dc) == IsGroup(dc) => dc.dice # <<>>

\* the two groupings of the tests, rolled by a roller that always gives the
\* highest face: 20 + high(2, (6 + 6)) = 32 and 20 + high(2, 6, 6) = 26
ClosedGroupExamples ==
    /\ Value(Evaluate(HighRoller,
                      Tokenize(<<"1", "d", "2", "0", " ", "+", " ", "(", "1", "d", "2", " ", "+", " ",
                                 "(", "2", "d", "6", ")", ")", "k", "h", "1">>).tokens).result)
           = Num(32, 0)
    /\ Value(Evaluate(HighRoller,
                      Tokenize(<<"1", "d", "2", "0", " ", "+", " ", "(", "1", "d", "2", " ", "+", " ",
                                 "2", "d", "6", ")", "k", "h", "1">>).tokens).result)
           = Num(26, 0)

\* C18: add_computation of a non-empty closed group and another non-empty
\* operand returns a group that holds the closed group as one child, its own
\* children untouched: as the first child when it was the left operand, as
\* the last when it was the right one.  So 1d20 + (1d2 + (2d6))kh1 is 32 and
\* 1d20 + (1d2 + 2d6)kh1 is 26 when every die shows its highest face.
C18_ClosedGroupStaysWhole ==
    /\ (Added /\ ClosedGroup(Left) /\ NonEmpty(Right)) =>
          (status = "done" /\ IsDiceSum(result) /\ result.dice[1] = Left)
    /\ (Added /\ ClosedGroup(Right) /\ NonEmpty(Left)) =>
          (status = "done" /\ IsDiceSum(result) /\ result.dice[Len(result.dice)] = Right)
    /\ (Added /\ ClosedGroup(Left) /\ ClosedGroup(Right)) => result.dice = <<Left, Right>>
    /\ Added => ClosedGroupExamples

\* a closed group that holds a closed pair has been added to an open pair of
\* dice: three children, the closed group and the two dice
C18_Witness ==
    /\ Added
    /\ ClosedGroup(Left)
    /\ \E i \in 1..Len(Left.dice) : ClosedGroup(Left.dice[i])
    /\ IsGroup(Right) /\ ~Right.is_closed /\ answer.postfix[2] = <<>>
    /\ Len(result.dice) = 3
    /\ result.dice[1] = Left

\* the operand at position i was made by a postfix operator
MadeByPostfix(i) == answer.postfix[i] # <<>>

\* the group holds the operand as one child, transformer and all
HoldsWhole(g, operand) == \E i \in 1..Len(g.dice) : g.dice[i] = operand

\* C19: add_computation of a group that a keep or threshold postfix operator
\* made, for every count and threshold that tokenize can produce, and of any
\* other non-empty operand (a leaf, an open group, a closed group), on either
\* side, returns a group that holds the transformed group as one opaque child
\* which still carries its transformer.
C19_AsStated ==
    /\ (Added /\ MadeByPostfix(1) /\ NonEmpty(Right)) =>
          (status = "done" /\ IsDiceSum(result) /\ HoldsWhole(result, Left))
    /\ (Added /\ MadeByPostfix(2) /\ NonEmpty(Left)) =>
          (status = "done" /\ IsDiceSum(result) /\ HoldsWhole(result, Right))

\* what the code keeps of it: a group whose transformer is not the identity
\* stays whole next to a leaf, an open group or another transformed group
C19_IsolatedFromOpenOperands ==
    /\ (Added /\ MadeByPostfix(1) /\ TransformerBool(Left.transformer)
           /\ NonEmpty(Right) /\ ~ClosedGroup(Right)) =>
          (status = "done" /\ result.dice = <<Left, Right>>)
    /\ (Added /\ MadeByPostfix(2) /\ TransformerBool(Right.transformer)
           /\ NonEmpty(Left) /\ ~ClosedGroup(Left)) =>
          (status = "done" /\ result.dice = <<Left, Right>>)

\* and what it does next to a closed group: the children of the transformed
\* group are spliced in beside the closed group and the transformer is lost
C19_SplicedNextToClosedGroup ==
    /\ (Added /\ MadeByPostfix(1) /\ ClosedGroup(Right)) =>
          result = DiceSum(Left.dice \o <<Right>>)
    /\ (Added /\ MadeByPostfix(2) /\ ClosedGroup(Left)) =>
          result = DiceSum(<<Left>> \o Right.dice)

\* a pair of dice under keep-highest(1) has been added to a die: the result
\* holds the keeping group and the die
C19_Witness ==
    /\ Added
    /\ answer.postfix[1] = <<KeepHighest(1)>>
    /\ Right.kind = "die"
    /\ result.dice = <<Left, Right>>
    /\ result.dice[1].transformer.cls = "KeepSelected"

OpenIdentity(dc) ==
    IsGroup(dc) /\ ~dc.is_closed /\ dc.transformer = IdentityTransformer /\ dc.dice # <<>>

IsLeaf(dc) == ~IsGroup(dc)

\* evaluate_group of the tokens of "1d20 + 2d4" has three children
FlattenExample ==
    Len(EvaluateGroup(HighRoller, 0,
                      Tokenize(<<"1", "d", "2", "0", " ", "+", " ", "2", "d", "4">>).tokens).result.dice) = 3

\* C20: add_computation of two non-empty open groups without transformer
\* returns one open group without transformer whose children are those of
\* the left operand followed by those of the right one; a leaf added to such
\* a group is appended to its children, or put before them when it is the
\* left operand.  So 1d20 + 2d4 is a group of exactly three children.
C20_Flattening ==
    /\ (Added /\ OpenIdentity(Left) /\ OpenIdentity(Right)) =>
          result = DiceGroup(Left.dice \o Right.dice, IdentityTransformer, FALSE)
    /\ (Added /\ OpenIdentity(Left) /\ IsLeaf(Right)) =>
          result = DiceGroup(Append(Left.dice, Right), IdentityTransformer, FALSE)
    /\ (Added /\ IsLeaf(Left) /\ OpenIdentity(Right)) =>
          result = DiceGroup(<<Left>> \o Right.dice, IdentityTransformer, FALSE)
    /\ Added => FlattenExample

\* an open group of one die has been added to an open pair of dice: one open
\* group of the three dice, in order
C20_Witness ==
    /\ Added
    /\ OpenIdentity(Left) /\ Len(Left.dice) = 1
    /\ OpenIdentity(Right) /\ Len(Right.dice) = 2
    /\ answer.postfix = <<<<>>, <<>>>>
    /\ result.dice = <<Left.dice[1], Right.dice[1], Right.dice[2]>>
    /\ ~result.is_closed

(***************************************************************************)
(* Properties of ties under keep, checked under SpecTies.                  *)
(***************************************************************************)
\* position j comes before position i in the order of the keep: a larger
\* magnitude (a smaller one for keep-lowest) or, at the same magnitude, an
\* earlier place in the list
ComesBefore(j, i) ==
    \/ IF answer.op = "highest"
       THEN Magnitude(Children[j]) > Magnitude(Children[i])
       ELSE Magnitude(Children[j]) < Magnitude(Children[i])
    \/ Magnitude(Children[j]) = Magnitude(Children[i]) /\ j < i

\* the positions kept when ties go to the earliest children
EarliestKept ==
    {i \in 1..Len(Children) :
        Cardinality({j \in 1..Len(Children) : ComesBefore(j, i)}) < answer.arg}

ValuesOfEarliestKept ==
    [i \in 1..Len(Children) |-> IF i \in EarliestKept THEN Value(Children[i]) ELSE Zero]

\* C21: keep-highest and keep-lowest select by magnitude alone and break
\* ties by input order: of the children of equal magnitude the earliest are
\* the ones kept, so that the kept positions follow from the ordered list of
\* magnitudes.
C21_AsStated ==
    Answered({"highest", "lowest"}) => answer.values = ValuesOfEarliestKept

\* what the code keeps of it: when the children that tie in magnitude are
\* equal to each other (dice of the same sides showing the same face), the
\* earliest of them are the ones kept
C21_EarliestAmongEqualChildren ==
    (Answered({"highest", "lowest"})
        /\ \A i \in 1..Len(Children) : \A j \in 1..Len(Children) :
              Magnitude(Children[i]) = Magnitude(Children[j])
                  => CompEq(Children[i], Children[j]))
        => answer.values = ValuesOfEarliestKept

\* keep-highest(2) has answered for dice showing 1, 2, 2 and 3, the two
\* dice showing 2 of the same sides: the first of them is kept
C21_Witness ==
    /\ answer.op = "highest" /\ answer.arg = 2
    /\ Magnitudes = <<1, 2, 2, 3>>
    /\ CompEq(Children[2], Children[3])
    /\ answer.values = <<Zero, Num(2, 0), Zero, Num(3, 0)>>

(***************************************************************************)
(* Properties of a postfix operator after a sum, checked under SpecExpr.   *)
(***************************************************************************)
\* the text is a + b followed by a postfix operator, b no constant, and it
\* has been evaluated
PostfixSumEvaluated(a, b, post) ==
    /\ \E sign \in PlusSigns : text = a \o sign \o b \o post
    /\ Tokenize(b).tokens[1].type # "Constant"
    /\ status \in {"done", "error"}

\* the result is a sum of two children: a as it evaluates alone, without
\* transformer, and a group of the remaining dice that carries the
\* transformer of the postfix operator
TwoChildSum(a, post) ==
    /\ status = "done"
    /\ Len(result.dice) = 2
    /\ IsDiceSum(result.dice[1])
    /\ result.dice[1].transformer = IdentityTransformer
    /\ result.dice[1].dice = Evaluate(Roller, Tokenize(a).tokens).result.dice
    /\ IsDiceSum(result.dice[2])
    /\ PostfixSelects(Tokenize(post).tokens[1], result.dice[2].transformer)
    /\ Len(DiceOf(result.dice[2])) = Len(draws) - Len(DiceOf(result.dice[1]))

\* C22: a postfix operator binds tighter than the plus sign: in A + B post it
\* applies to B, the atom or parenthesised group right before it, and never
\* to the sum so far, so that the result is a sum of two children, the
\* untransformed A and B with the transformer of the postfix operator.
C22_AsStated ==
    \A a \in Operands : \A b \in Operands : \A post \in PostfixSuffixes :
        PostfixSumEvaluated(a, b, post) => TwoChildSum(a, post)

\* the test's text 2d20 + (1d2 + 1d4) kh1 with the always-highest roller:
\* Sum[Sum[20, 20], Highest(Sum[2, 4])]
PostfixSumExample ==
    LET r == Evaluate(HighRoller,
                      Tokenize(<<"2", "d", "2", "0", " ", "+", " ", "(", "1", "d", "2", " ", "+", " ",
                                 "1", "d", "4", ")", " ", "k", "h", "1">>).tokens).result
    IN  /\ Len(r.dice) = 2
        /\ r.dice[1] = DiceSum(<<DieRoll(1, 20, 20), DieRoll(2, 20, 20)>>)
        /\ r.dice[2] = Keep(DiceSum(<<DieRoll(3, 2, 2), DieRoll(4, 4, 4)>>), Highest(1))

\* what the code keeps of it: whenever A is not itself a parenthesised
\* group, the result is that sum of two children
C22_UnlessLeftIsParenthesised ==
    /\ \A a \in Operands : \A b \in Operands : \A post \in PostfixSuffixes :
          (PostfixSumEvaluated(a, b, post) /\ Tokenize(a).tokens[1] # GROUP_START)
              => TwoChildSum(a, post)
    /\ status = "done" => PostfixSumExample

\* 3d20 + 2c kl1 has been evaluated by the always-highest roller: the three
\* dice untransformed, and the two combat dice under keep-lowest(1)
C22_Witness ==
    /\ text = <<"3", "d", "2", "0", " ", "+", " ", "2", "c", " ", "k", "l", "1">>
    /\ status = "done"
    /\ answer.op = "high"
    /\ Len(result.dice) = 2
    /\ Len(result.dice[1].dice) = 3
    /\ result.dice[2].transformer = KeepSelected(Lowest(1))

(***************************************************************************)
(* C23: addition preserves the value.                                      *)
(***************************************************************************)
\* one of the two operands at least is a group, so that add_computation has
\* a group to add to
SomeGroup == IsGroup(Left) \/ IsGroup(Right)

\* the value of the result is the sum of the values of the operands
ValuePreserved == status = "done" /\ Value(result) = NumAdd(Value(Left), Value(Right))

\* a closed group with children stands next to a group that a postfix
\* operator made
ClosedNextToPostfix ==
    \/ ClosedGroup(Left) /\ MadeByPostfix(2)
    \/ ClosedGroup(Right) /\ MadeByPostfix(1)

\* C23: for all computations left and right (a leaf, an empty group, an open
\* group, a closed group, a group under a keep or a threshold transformer, in
\* any combination), the value of add_computation(left, right), magnitude
\* and effects, is value(left) + value(right) componentwise.
C23_AsStated == (Added /\ SomeGroup) => ValuePreserved

\* what the code keeps of it: the value is preserved for every pair but a
\* closed group next to a group made by a postfix operator
C23_PreservedUnlessSpliced ==
    (Added /\ SomeGroup /\ ~ClosedNextToPostfix) => ValuePreserved

\* and next to a closed group the children of the transformed group count
\* in full
C23_SplicedCountsEveryChild ==
    /\ (Added /\ ClosedGroup(Left) /\ MadeByPostfix(2)) =>
          Value(result) = NumAdd(Value(Left), Value(DiceSum(Right.dice)))
    /\ (Added /\ ClosedGroup(Right) /\ MadeByPostfix(1)) =>
          Value(result) = NumAdd(Value(DiceSum(Left.dice)), Value(Right))

\* a pair of dice 2 and 1 under keep-lowest(1) has been added to an open pair
\* of dice 2 and 1: the sum is 1 + 3
C23_Witness ==
    /\ Added
    /\ answer.postfix = <<(<<KeepLowest(1)>>), <<>>>>
    /\ Right = DiceSum(<<DieRoll(11, 2, 2), DieRoll(12, 2, 1)>>)
    /\ Value(Left) = Num(1, 0)
    /\ Value(result) = Num(4, 0)

(***************************************************************************)
(* C24: kept() and kept_indexes() of the group a method returned.          *)
(***************************************************************************)
\* the children at the positions that kept_indexes() yields, in that order
AtKeptIndexes(g) == [n \in 1..Len(KeptIndexes(g)) |-> g.dice[KeptIndexes(g)[n] + 1]]

\* a method has returned its group and the caller has read it
Returned == answer # NoAnswer /\ answer.raised = <<>>

\* the child at position i contributes a complication and no magnitude
OnlyEffects(g, i) ==
    LET values == TransformerCall(g.transformer, g.dice)
    IN  values[i].m = 0 /\ values[i].e # 0

\* C24: for every group and every transformer (identity, keep, threshold,
\* crit threshold), kept() yields exactly the children at the positions that
\* kept_indexes() returns, in the same order, and kept_indexes() asked again
\* gives the indices it gave first.
C24_AsStated ==
    Returned =>
        /\ Kept(group) = AtKeptIndexes(group)
        /\ KeptIndexes(group) = answer.kept_indexes

\* what the code keeps of it: the two agree under the identity, a keep and a
\* plain threshold, and under a crit threshold as long as no child counts as
\* a complication only; asking again gives the same indices in every case
C24_AgreeUnlessOnlyEffects ==
    Returned =>
        /\ (\A i \in 1..Len(Children) : ~OnlyEffects(group, i)) =>
               Kept(group) = AtKeptIndexes(group)
        /\ answer.op \notin CritThresholdTypes =>
               \A i \in 1..Len(Children) : ~OnlyEffects(group, i)
        /\ KeptIndexes(group) = answer.kept_indexes

\* and a child that counts as a complication only is in kept() and not in
\* kept_indexes()
C24_ComplicationIsKeptWithoutIndex ==
    Returned =>
        \A i \in 1..Len(Children) :
            OnlyEffects(group, i) =>
                /\ \E n \in 1..Len(Kept(group)) : Kept(group)[n] = Children[i]
                /\ \A n \in 1..Len(KeptIndexes(group)) : KeptIndexes(group)[n] # i - 1

\* lowest(1) of the dice 2, 1, 2: kept() is the die at index 1
C24_Witness ==
    /\ answer.op = "lowest"
    /\ Returned
    /\ Len(Children) = 3
    /\ answer.kept_indexes = <<1>>
    /\ Kept(group) = <<Children[2]>>
    /\ Children[2].kind = "die"

(***************************************************************************)
(* C25: eval_summation terminates.  SpecFair is the loop on a finite      *)
(* sequence of the tokens that open, fill and close groups: the iterable   *)
(* of the for loop comes to its end, and the return after the loop is then *)
(* run.                                                                    *)
(***************************************************************************)
NextFair ==
    \/ TokenGroupStart
    \/ TokenGroupEnd
    \/ TokenDice
    \/ TokenConstant
    \/ TokenAdd
    \/ EndOfTokens

SpecFair == Init /\ [][NextFair]_vars /\ WF_vars(EndOfTokens)

\* the run has ended
Ended == status \in {"done", "error"}

\* one more token has been taken from the iterable, and the ones before stay
TookOne ==
    /\ Len(consumed') = Len(consumed) + 1
    /\ SubSeq(consumed', 1, Len(consumed)) = consumed

\* the pops of the unwinding loop of GroupEnd: the nodes above the last
\* GROUP_START and the GROUP_START itself
Pops == Len(context) + 1 - Len(context')

\* what a turn of the loop, or the return after it, does
Turn ==
    /\ status = "running"
    /\ \/ TookOne
       \/ consumed' = consumed /\ status' \in {"done", "error"}
    /\ (TookOne /\ consumed'[Len(consumed')] = GROUP_END /\ status' = "running") =>
          Pops \in 1..Len(context)
    /\ (TookOne /\ consumed'[Len(consumed')] = GROUP_END /\ status' = "error") =>
          (LastGroupStart(context) = 0 /\ context' = context)

\* how a run ends: in a single closed group, which is the evaluation of all
\* the tokens taken, each once and in order, or in the exception raised
EndsInResultOrError ==
    /\ status = "done" =>
          /\ IsDiceSum(result) /\ result.is_closed
          /\ result = Evaluate(SeqRoller(Faces(draws)), consumed).result
    /\ status = "error" => IsError(result)
    /\ status = "running" => result = <<>>

C25_TurnsAndEnds == [][Turn]_vars /\ []EndsInResultOrError

====
